---- MODULE Spec2Model ----
(***************************************************************************)
(* Handle-lifecycle model of the TinkerGraph Python binding                *)
(* (python/tinkergraphs/graph.py over python/tinkergraphs/bindings.py).    *)
(*                                                                         *)
(* Host state: per graph the _closed flag, the _vertices / _edges          *)
(* registries (insertion-ordered dicts keyed by native pointer) and the    *)
(* fallback id counter; every Vertex / Edge wrapper ever constructed.      *)
(* Native state: which allocation lives at which pointer value, how often  *)
(* each allocation was handed to its destroy entry point.                  *)
(***************************************************************************)
EXTENDS Integers, Sequences, FiniteSets, TLC

\* ----- bounds ------------------------------------------------------------
NumGraphs  == 2    \* TinkerGraph instances constructed
MaxVW      == 2    \* Vertex wrappers ever constructed (all graphs)
MaxEW      == 1    \* Edge wrappers ever constructed (all graphs)
MaxVHandle == 2    \* distinct native vertex pointer values
MaxEHandle == 1    \* distinct native edge pointer values
NumThreads == 2    \* threads that construct graphs
MaxCalls   == 2    \* NativeGraphHandle() calls per thread
MaxStrLen  == 3    \* length of the strings the native side holds
MaxBuf     == 3    \* buffer_size arguments
MaxOverlayV == 1   \* Vertex wrappers in the overlay specification
MaxParallelE == 2  \* Edge wrappers, and native edge pointer values, for parallel edges

Graphs   == 1..NumGraphs
VHandles == 1..MaxVHandle
Threads  == 1..NumThreads

\* ----- encodings of Python values -----------------------------------------
None   == "#None"     \* the Python value None
NonStr == "#int"      \* any Python value that is not a str and not None
IsStr(x) == x # None /\ x # NonStr

\* property overlays: a dict from keys to values; Absent marks a key that is
\* not in the dict
Keys   == {"name", "age"}
Absent == "#absent"

NoProps == [k \in Keys |-> Absent]

Overlays == [Keys -> {"Bob", "Al", None, Absent}]

Digits == <<"0", "1", "2", "3", "4", "5", "6", "7", "8", "9">>

RECURSIVE str(_)
str(n) == IF n < 10 THEN Digits[n + 1] ELSE str(n \div 10) \o Digits[(n % 10) + 1]

Range(f) == {f[i] : i \in DOMAIN f}

VARIABLES
    closed,             \* TinkerGraph._closed, per graph
    vertices,           \* TinkerGraph._vertices, per graph: wrappers in dict order
    edges,              \* TinkerGraph._edges, per graph: wrappers in dict order
    vertex_id_counter,  \* TinkerGraph._vertex_id_counter, per graph
    vw,                 \* every Vertex wrapper constructed so far
    ew,                 \* every Edge wrapper constructed so far
    nv,                 \* native side: pointer value -> vertex allocation living there
    ne,                 \* native side: pointer value -> edge allocation living there
    vdc,                \* per Vertex wrapper: times its pointer was passed to destroy_vertex
    edc,                \* per Edge wrapper: times its pointer was passed to destroy_edge
    dangling,           \* a native call was given a pointer with no live allocation
    last,               \* the operation that ran last and how it ended
    calls,              \* native calls made by the operation that ran last
    reclaimed,          \* per graph: the TinkerGraph object was garbage collected
    vprops,             \* Vertex.properties, per Vertex wrapper
    eprops,             \* Edge.properties, per Edge wrapper
    ret,                \* what the call that ran last returned
    lib_instance,       \* NativeGraphHandle._lib_instance: 0 for None, else the instance
    binds,              \* TinkerGraphNativeLibrary instances loaded and bound so far
    thr,                \* per thread: where it is in NativeGraphHandle.__init__
    nat,                \* the string a native string getter is asked for, and the buffer
    host                \* the platform, environment and files the library is located in

graphVars == <<closed, vertices, edges, vertex_id_counter, vw, ew, nv, ne, vdc, edc,
               dangling, last, calls, reclaimed, vprops, eprops, ret>>

brokerVars == <<lib_instance, binds, thr, nat, host>>

vars == <<graphVars, brokerVars>>

Free == [alloc |-> 0, id |-> ""]

\* ----- dict operations on a registry (sequence of wrappers, keyed by _ptr) --
DictHas(reg, W, ptr) == \E i \in DOMAIN reg : W[reg[i]].ptr = ptr

\* the entry is left in the dict
DictDel_Kept(reg, W, ptr) == reg

DictDel(reg, W, ptr) == SelectSeq(reg, LAMBDA x : W[x].ptr # ptr)

DictSet(reg, W, w) ==
    IF DictHas(reg, W, W[w].ptr)
    THEN [i \in DOMAIN reg |-> IF W[reg[i]].ptr = W[w].ptr THEN w ELSE reg[i]]
    ELSE Append(reg, w)

\* ----- the state an operation works on -------------------------------------
Pack ==
    [closed |-> closed, vertices |-> vertices, edges |-> edges,
     vertex_id_counter |-> vertex_id_counter, vw |-> vw, ew |-> ew,
     nv |-> nv, ne |-> ne, vdc |-> vdc, edc |-> edc, dangling |-> dangling,
     reclaimed |-> reclaimed, vprops |-> vprops, eprops |-> eprops,
     calls |-> <<>>, opfail |-> FALSE, exc |-> "", badargs |-> FALSE]

Log(s, fn, h) == [s EXCEPT !.calls = Append(@, <<fn, h>>)]

Raise(s, e) == [s EXCEPT !.exc = e]

Inc(n) == IF n < 2 THEN n + 1 ELSE 2

\* ----- native function table, reached through NativeGraphHandle -------------
NativeVertexCount(s, g) ==
    Cardinality({h \in VHandles : s.nv[h].alloc # 0 /\ s.vw[s.nv[h].alloc].graph = g})

NativeEdgeCount(s, g) ==
    Cardinality({h \in DOMAIN s.ne : s.ne[h].alloc # 0 /\ s.ew[s.ne[h].alloc].graph = g})

\* NativeGraphHandle.add_vertex: "" is sent as a null id, like None
NativeIdArg(vertex_id) == IF vertex_id = None \/ vertex_id = "" THEN None ELSE vertex_id

\* outcomes of tinkergraph_add_vertex: 0 (null), or a pointer value not in use
\* when the native graph g holds no vertex with the id
AddVertexOutcomes(s, g, vertex_id) ==
    LET ids == {s.nv[h].id : h \in {k \in VHandles : /\ s.nv[k].alloc # 0
                                                      /\ s.vw[s.nv[k].alloc].graph = g}}
    IN  {0} \cup IF NativeIdArg(vertex_id) \in ids THEN {}
                 ELSE {h \in VHandles : s.nv[h].alloc = 0}

AddEdgeOutcomes(s) == {0} \cup {h \in DOMAIN s.ne : s.ne[h].alloc = 0}

\* NativeGraphHandle.destroy_vertex; raises = the native call fails
DestroyVertex(s, ptr, raises) ==
    IF ptr = 0 THEN s
    ELSE LET a  == s.nv[ptr].alloc
             s1 == Log(s, "destroy_vertex", ptr)
         IN  IF a = 0 THEN [s1 EXCEPT !.dangling = TRUE]
             ELSE IF raises THEN [s1 EXCEPT !.opfail = TRUE]
             ELSE [s1 EXCEPT !.nv[ptr] = Free]

\* NativeGraphHandle.destroy_edge
DestroyEdge(s, ptr, raises) ==
    IF ptr = 0 THEN s
    ELSE LET a  == s.ne[ptr].alloc
             s1 == Log(s, "destroy_edge", ptr)
         IN  IF a = 0 THEN [s1 EXCEPT !.dangling = TRUE]
             ELSE IF raises THEN [s1 EXCEPT !.opfail = TRUE]
             ELSE [s1 EXCEPT !.ne[ptr] = Free]

\* ----- TinkerGraph helpers --------------------------------------------------
\* the check never raises
CheckNotClosed_Never(s, g) == FALSE

\* every value passes for a str
IsInstanceStr_Any(x) == TRUE

\* isinstance(x, str)
IsInstanceStr(x) == IsStr(x)

\* _check_not_closed: TRUE when it raises
CheckNotClosed(s, g) == s.closed[g]

\* Vertex._graph() / Edge._graph(): the weak reference gives the graph, or
\* None (here 0) once the graph object was garbage collected
GraphRef(s, g) == IF s.reclaimed[g] THEN 0 ELSE g

\* Vertex.__eq__ / Edge.__eq__: same id and the same _graph()
VertexEq(s, a, b) ==
    s.vw[a].id = s.vw[b].id /\ GraphRef(s, s.vw[a].graph) = GraphRef(s, s.vw[b].graph)

EdgeEq(s, a, b) ==
    s.ew[a].id = s.ew[b].id /\ GraphRef(s, s.ew[a].graph) = GraphRef(s, s.ew[b].graph)

\* hash() of a str: a function of the string alone
PyHash(x) == Len(x) % 4

\* Vertex.__hash__ / Edge.__hash__
VertexHash(s, a) == PyHash(s.vw[a].id)

EdgeHash(s, a) == PyHash(s.ew[a].id)

\* the wrapper is marked disposed inside the try, after the native call
VertexCleanup_DisposedInTry(s, w, failV) ==
    IF s.exc # "" THEN s
    ELSE IF s.vw[w].disposed \/ s.vw[w].ptr = 0 THEN s
    ELSE LET g  == s.vw[w].graph
             s1 == Log(s, "vertex_count", g)
             s2 == [DestroyVertex(s1, s1.vw[w].ptr, w \in failV) EXCEPT !.vdc[w] = Inc(@)]
         IN  IF w \in failV THEN s2 ELSE [s2 EXCEPT !.vw[w].disposed = TRUE]

\* Vertex._cleanup; "if graph" is bool(graph) = TinkerGraph.__len__() # 0,
\* and __len__ is the vertex_count property (closed check, then native count)
VertexCleanup(s, w, failV) ==
    IF s.exc # "" THEN s
    ELSE IF s.vw[w].disposed \/ s.vw[w].ptr = 0 THEN s
    ELSE LET g == s.vw[w].graph
         IN  IF GraphRef(s, g) = 0 THEN [s EXCEPT !.vw[w].disposed = TRUE]
             ELSE IF CheckNotClosed(s, g) THEN Raise(s, "GraphClosed")
             ELSE LET s1 == Log(s, "vertex_count", g)
                      s2 == IF NativeVertexCount(s1, g) # 0
                            THEN [DestroyVertex(s1, s1.vw[w].ptr, w \in failV)
                                      EXCEPT !.vdc[w] = Inc(@)]
                            ELSE s1
                  IN  [s2 EXCEPT !.vw[w].disposed = TRUE]

\* Edge._cleanup
EdgeCleanup(s, e, failE) ==
    IF s.exc # "" THEN s
    ELSE IF s.ew[e].disposed \/ s.ew[e].ptr = 0 THEN s
    ELSE LET g == s.ew[e].graph
         IN  IF GraphRef(s, g) = 0 THEN [s EXCEPT !.ew[e].disposed = TRUE]
             ELSE IF CheckNotClosed(s, g) THEN Raise(s, "GraphClosed")
             ELSE LET s1 == Log(s, "vertex_count", g)
                      s2 == IF NativeVertexCount(s1, g) # 0
                            THEN [DestroyEdge(s1, s1.ew[e].ptr, e \in failE)
                                      EXCEPT !.edc[e] = Inc(@)]
                            ELSE s1
                  IN  [s2 EXCEPT !.ew[e].disposed = TRUE]

\* TinkerGraph.remove_edge
HostRemoveEdge(s, g, e, failE) ==
    IF s.exc # "" THEN s
    ELSE IF CheckNotClosed(s, g) THEN Raise(s, "GraphClosed")
    ELSE IF DictHas(s.edges[g], s.ew, s.ew[e].ptr)
         THEN LET s1 == EdgeCleanup(s, e, failE)
              IN  IF s1.exc # "" THEN s1
                  ELSE [s1 EXCEPT !.edges[g] = DictDel(@, s1.ew, s1.ew[e].ptr)]
         ELSE s

RECURSIVE RemoveEdges(_, _, _, _)
RemoveEdges(s, g, list, failE) ==
    IF list = <<>> THEN s
    ELSE RemoveEdges(HostRemoveEdge(s, g, Head(list), failE), g, Tail(list), failE)

\* TinkerGraph.remove_vertex
HostRemoveVertex(s, g, v, failV, failE) ==
    IF s.exc # "" THEN s
    ELSE IF CheckNotClosed(s, g) THEN Raise(s, "GraphClosed")
    ELSE IF DictHas(s.vertices[g], s.vw, s.vw[v].ptr)
         THEN LET edges_to_remove ==
                      SelectSeq(s.edges[g],
                                LAMBDA e : \/ VertexEq(s, s.ew[e].out_vertex, v)
                                           \/ VertexEq(s, s.ew[e].in_vertex, v))
                  s1 == RemoveEdges(s, g, edges_to_remove, failE)
                  s2 == VertexCleanup(s1, v, failV)
              IN  IF s2.exc # "" THEN s2
                  ELSE [s2 EXCEPT !.vertices[g] = DictDel(@, s2.vw, s2.vw[v].ptr)]
         ELSE s

RECURSIVE RemoveVertices(_, _, _, _, _)
RemoveVertices(s, g, list, failV, failE) ==
    IF list = <<>> THEN s
    ELSE RemoveVertices(HostRemoveVertex(s, g, Head(list), failV, failE),
                        g, Tail(list), failV, failE)

\* TinkerGraph.clear
HostClear(s, g, failV, failE) ==
    IF CheckNotClosed(s, g) THEN Raise(s, "GraphClosed")
    ELSE LET s1 == RemoveEdges(s, g, s.edges[g], failE)
         IN  RemoveVertices(s1, g, s1.vertices[g], failV, failE)

RECURSIVE CleanupVertices(_, _, _)
CleanupVertices(s, list, failV) ==
    IF list = <<>> THEN s
    ELSE CleanupVertices(VertexCleanup(s, Head(list), failV), Tail(list), failV)

RECURSIVE CleanupEdges(_, _, _)
CleanupEdges(s, list, failE) ==
    IF list = <<>> THEN s
    ELSE CleanupEdges(EdgeCleanup(s, Head(list), failE), Tail(list), failE)

\* close() starts with the closed check of the other operations
HostClose_Checked(s, g, failV, failE) ==
    IF CheckNotClosed(s, g) THEN Raise(s, "GraphClosed")
    ELSE LET s1 == CleanupVertices(s, s.vertices[g], failV)
             s2 == CleanupEdges(s1, s1.edges[g], failE)
         IN  [s2 EXCEPT !.vertices[g] = <<>>, !.edges[g] = <<>>, !.closed[g] = TRUE]

\* TinkerGraph.close
HostClose(s, g, failV, failE) ==
    IF ~s.closed[g]
    THEN LET s1 == CleanupVertices(s, s.vertices[g], failV)
             s2 == CleanupEdges(s1, s1.edges[g], failE)
         IN  IF s2.exc # "" THEN s2
             ELSE [s2 EXCEPT !.vertices[g] = <<>>, !.edges[g] = <<>>, !.closed[g] = TRUE]
    ELSE s

\* the native error is caught and dropped
AddFailed_Swallowed(s, e) == [s EXCEPT !.opfail = TRUE]

\* "except TinkerGraphNativeError as e: raise TinkerGraph...Error(...) from e",
\* reached when the native add returned a null handle
AddFailed(s, e) == [Raise(s, e) EXCEPT !.opfail = TRUE]

\* `and` in the place of `or`
NotSameGraph_And(s, g, out, in) == s.vw[out].graph # g /\ s.vw[in].graph # g

\* `out_vertex._graph() != self or in_vertex._graph() != self` in add_edge
NotSameGraph(s, g, out, in) == s.vw[out].graph # g \/ s.vw[in].graph # g

\* the counter is left as it is
IncCounter_Skipped(n) == n

\* `self._vertex_id_counter += 1`
IncCounter(n) == n + 1

\* the label is kept as it was given
DefaultLabel_Kept(label) == label

\* `if label is None: label = "vertex"` in add_vertex
DefaultLabel(label) == IF label = None THEN "vertex" ELSE label

\* TinkerGraph.add_vertex; ptr is what the native add returns (0 = null),
\* idok whether get_vertex_id succeeds
HostAddVertex(s, g, label, vertex_id, properties, ptr, idok) ==
    IF CheckNotClosed(s, g) THEN Raise(s, "GraphClosed")
    ELSE IF label # None /\ ~IsInstanceStr(label) THEN Raise(s, "ValidationError: label")
    ELSE IF vertex_id # None /\ ~IsInstanceStr(vertex_id)
         THEN Raise(s, "ValidationError: vertex_id")
    ELSE LET lbl == DefaultLabel(label)
             all_properties == lbl # "vertex" \/ properties # NoProps
             s1  == IF all_properties THEN Log(s, "add_vertex_with_properties", g)
                    ELSE Log(s, "add_vertex", g)
         IN  IF ptr = 0 THEN AddFailed(s1, "VertexError")
             ELSE LET w   == Len(s.vw) + 1
                      nid == IF NativeIdArg(vertex_id) = None THEN "n" \o str(w)
                             ELSE vertex_id
                      s2  == [s1 EXCEPT !.nv[ptr] = [alloc |-> w, id |-> nid],
                                        !.vdc = Append(@, 0)]
                      s3  == IF vertex_id # None THEN s2
                             ELSE IF idok THEN Log(s2, "vertex_id", ptr)
                             ELSE [Log(s2, "vertex_id", ptr) EXCEPT
                                       !.opfail = TRUE,
                                       !.vertex_id_counter[g] = IncCounter(@)]
                      id  == IF vertex_id # None THEN vertex_id
                             ELSE IF idok THEN nid
                             ELSE str(s.vertex_id_counter[g])
                      s4  == [s3 EXCEPT !.vw = Append(@, [graph |-> g, ptr |-> ptr, id |-> id,
                                                          label |-> lbl, disposed |-> FALSE]),
                                        !.vprops = Append(@, properties)]
                  IN  [s4 EXCEPT !.vertices[g] = DictSet(@, s4.vw, w)]

\* TinkerGraph.add_edge; out / in = 0 stands for an argument that is no Vertex
HostAddEdge(s, g, label, out, in, edge_id, properties, ptr) ==
    IF CheckNotClosed(s, g) THEN Raise(s, "GraphClosed")
    ELSE IF ~IsInstanceStr(label) THEN Raise(s, "ValidationError: label")
    ELSE IF out = 0 THEN Raise(s, "ValidationError: out_vertex")
    ELSE IF in = 0 THEN Raise(s, "ValidationError: in_vertex")
    ELSE IF NotSameGraph(s, g, out, in)
         THEN Raise(s, "ValidationError: Vertices must belong to the same graph")
    ELSE LET s1 == [Log(s, IF properties # NoProps THEN "add_edge_with_properties"
                                   ELSE "add_edge", g) EXCEPT
                        !.dangling = @ \/ s.nv[s.vw[out].ptr].alloc = 0
                                       \/ s.nv[s.vw[in].ptr].alloc = 0]
         IN  IF ptr = 0 THEN AddFailed(s1, "EdgeError")
             ELSE LET e  == Len(s.ew) + 1
                      id == IF edge_id = None
                            THEN s.vw[out].id \o "-" \o label \o "->" \o s.vw[in].id
                            ELSE edge_id
                      s2 == [s1 EXCEPT !.ne[ptr] = [alloc |-> e, id |-> ""],
                                       !.edc = Append(@, 0),
                                       !.ew = Append(@, [graph |-> g, ptr |-> ptr, id |-> id,
                                                         label |-> label, out_vertex |-> out,
                                                         in_vertex |-> in, disposed |-> FALSE]),
                                       !.eprops = Append(@, properties)]
                  IN  [s2 EXCEPT !.edges[g] = DictSet(@, s2.ew, e)]

\* the property goes to the native count without the closed check
HostVertexCount_Unchecked(s, g) == Log(s, "vertex_count", g)

\* TinkerGraph.vertex_count / edge_count (properties)
HostVertexCount(s, g) ==
    IF CheckNotClosed(s, g) THEN Raise(s, "GraphClosed") ELSE Log(s, "vertex_count", g)

HostEdgeCount(s, g) ==
    IF CheckNotClosed(s, g) THEN Raise(s, "GraphClosed") ELSE Log(s, "edge_count", g)

\* TinkerGraph.vertices / edges without filters
HostVertices(s, g) == IF CheckNotClosed(s, g) THEN Raise(s, "GraphClosed") ELSE s

HostEdges(s, g) == IF CheckNotClosed(s, g) THEN Raise(s, "GraphClosed") ELSE s

\* ----- Vertex / Edge: the property overlay --------------------------------------
\* _matches_properties gives True as soon as one filter matches
MatchesProperties_Any(properties, filters) ==
    \E key \in Keys : filters[key] # Absent /\ properties[key] = filters[key]

\* Vertex._matches_properties / Edge._matches_properties: every filter key is in
\* the dict with an equal value
MatchesProperties(properties, filters) ==
    ~\E key \in Keys :
        /\ filters[key] # Absent
        /\ (properties[key] = Absent \/ properties[key] # filters[key])

\* get_property: self.properties.get(key, default)
HostGetProperty(properties, key, default) ==
    IF properties[key] # Absent THEN properties[key] ELSE default

\* the key is stored without the isinstance test
HostSetProperty_Unchecked(properties, key, value) ==
    [exc |-> "",
     properties |-> IF key \in Keys THEN [properties EXCEPT ![key] = value] ELSE properties]

\* set_property: the new dict, or the error raised
HostSetProperty(properties, key, value) ==
    IF ~IsInstanceStr(key) THEN [exc |-> "ValidationError: key", properties |-> properties]
    ELSE [exc |-> "", properties |-> [properties EXCEPT ![key] = value]]

\* pop() gives the value and leaves the key in the dict
HostRemoveProperty_Kept(properties, key) ==
    [value |-> IF properties[key] # Absent THEN properties[key] ELSE None,
     properties |-> properties]

\* remove_property: self.properties.pop(key, None)
HostRemoveProperty(properties, key) ==
    [value |-> IF properties[key] # Absent THEN properties[key] ELSE None,
     properties |-> [properties EXCEPT ![key] = Absent]]

\* TinkerGraph.vertices(**filters) / edges(**filters): the list returned
HostVerticesList(s, g, filters) ==
    IF filters # NoProps
    THEN SelectSeq(s.vertices[g], LAMBDA v : MatchesProperties(s.vprops[v], filters))
    ELSE s.vertices[g]

HostEdgesList(s, g, filters) ==
    IF filters # NoProps
    THEN SelectSeq(s.edges[g], LAMBDA e : MatchesProperties(s.eprops[e], filters))
    ELSE s.edges[g]

\* TinkerGraph.get_vertex: the first registered vertex with the id, or None
\* (here 0, as for _graph())
HostGetVertex(s, g, vertex_id) ==
    IF CheckNotClosed(s, g) THEN [s |-> Raise(s, "GraphClosed"), value |-> 0]
    ELSE LET found == SelectSeq(s.vertices[g], LAMBDA v : s.vw[v].id = vertex_id)
         IN  [s |-> s, value |-> IF found = <<>> THEN 0 ELSE Head(found)]

\* ----- Vertex: adjacency queries -------------------------------------------------
\* truth of a graph object goes by identity, without a call
HostLen_NoCall(s, g) == s

\* "if not graph" on a live graph object: bool(graph) is TinkerGraph.__len__,
\* which reads the vertex_count property
HostLen(s, g) == HostVertexCount(s, g)

\* the registered edges of v's graph that have v (by ==) at the given end, or []
\* when the graph is gone or empty
EdgesOf(s, v, labels, end) ==
    LET g == GraphRef(s, s.vw[v].graph)
    IN  IF g = 0 THEN [s |-> s, value |-> <<>>]
        ELSE LET s1 == HostLen(s, g)
             IN  IF s1.exc # "" \/ NativeVertexCount(s1, g) = 0
                 THEN [s |-> s1, value |-> <<>>]
                 ELSE [s |-> s1,
                       value |-> SelectSeq(s1.edges[g],
                                           LAMBDA e : /\ VertexEq(s1, s1.ew[e][end], v)
                                                      /\ (labels = {} \/
                                                            s1.ew[e].label \in labels))]

\* Vertex.out_edges / in_edges
HostOutEdges(s, v, labels) == EdgesOf(s, v, labels, "out_vertex")

HostInEdges(s, v, labels) == EdgesOf(s, v, labels, "in_vertex")

\* a + b, where b was computed in the state a left: nothing of b when a raised
Concat(a, b) ==
    IF a.s.exc # "" THEN a
    ELSE [s |-> b.s, value |-> IF b.s.exc # "" THEN <<>> ELSE a.value \o b.value]

\* Vertex.both_edges
HostBothEdges(s, v, labels) ==
    LET a == HostOutEdges(s, v, labels)
    IN  Concat(a, HostInEdges(a.s, v, labels))

\* Vertex.out_vertices / in_vertices / both_vertices
HostOutVertices(s, v, labels) ==
    LET r == HostOutEdges(s, v, labels)
    IN  [s |-> r.s, value |-> [i \in 1..Len(r.value) |-> s.ew[r.value[i]].in_vertex]]

HostInVertices(s, v, labels) ==
    LET r == HostInEdges(s, v, labels)
    IN  [s |-> r.s, value |-> [i \in 1..Len(r.value) |-> s.ew[r.value[i]].out_vertex]]

HostBothVertices(s, v, labels) ==
    LET a == HostOutVertices(s, v, labels)
    IN  Concat(a, HostInVertices(a.s, v, labels))

\* ----- Edge.other_vertex -----------------------------------------------------------
\* Edge.other_vertex: the tests are Vertex.__eq__
HostOtherVertex(s, e, v) ==
    IF VertexEq(s, v, s.ew[e].out_vertex)
    THEN [exc |-> "", value |-> s.ew[e].in_vertex]
    ELSE IF VertexEq(s, v, s.ew[e].in_vertex)
    THEN [exc |-> "", value |-> s.ew[e].out_vertex]
    ELSE [exc |-> "ValidationError: Vertex is not connected to this edge", value |-> None]

\* ----- the operations as steps -----------------------------------------------
HostState(s) ==
    <<s.closed, s.vertices, s.edges, s.vertex_id_counter, s.vw, s.ew,
      s.nv, s.ne, s.vdc, s.edc, s.vprops, s.eprops>>

\* the call returned nothing that is looked at
NoRet == <<>>

\* an operation on graph g ends in state s and returns r; last records how it
\* ended
CommitRet(s, op, g, r) ==
    /\ closed' = s.closed
    /\ vertices' = s.vertices
    /\ edges' = s.edges
    /\ vertex_id_counter' = s.vertex_id_counter
    /\ vw' = s.vw
    /\ ew' = s.ew
    /\ nv' = s.nv
    /\ ne' = s.ne
    /\ vdc' = s.vdc
    /\ edc' = s.edc
    /\ dangling' = s.dangling
    /\ calls' = s.calls
    /\ reclaimed' = s.reclaimed
    /\ vprops' = s.vprops
    /\ eprops' = s.eprops
    /\ ret' = r
    /\ UNCHANGED brokerVars
    /\ last' = [op |-> op, g |-> g, result |-> IF s.exc = "" THEN "ok" ELSE s.exc,
                was_closed |-> closed[g], fail |-> s.opfail,
                changed |-> HostState(s) # HostState(Pack), badargs |-> s.badargs]

\* an operation whose return value is not looked at
Commit(s, op, g) == CommitRet(s, op, g, NoRet)

\* no string getter is being called
NoQuery == [str |-> "", size |-> 1, fails |-> FALSE, nul |-> TRUE]

\* the library is not being located
NoHost == [platform |-> "", env |-> None, exists |-> {}, loads |-> FALSE]

\* a thread that is not inside NativeGraphHandle.__init__
Idle == [pc |-> "idle", new |-> 0, lib |-> 0, calls |-> 0]

\* the graphs have been constructed, by one thread: the library is bound
InitGraphs ==
    /\ closed = [g \in Graphs |-> FALSE]
    /\ vertices = [g \in Graphs |-> <<>>]
    /\ edges = [g \in Graphs |-> <<>>]
    /\ vertex_id_counter = [g \in Graphs |-> 0]
    /\ vw = <<>>
    /\ ew = <<>>
    /\ nv = [h \in VHandles |-> Free]
    /\ ne = [h \in 1..MaxEHandle |-> Free]
    /\ vdc = <<>>
    /\ edc = <<>>
    /\ dangling = FALSE
    /\ calls = <<>>
    /\ reclaimed = [g \in Graphs |-> FALSE]
    /\ vprops = <<>>
    /\ eprops = <<>>
    /\ ret = NoRet
    /\ last = [op |-> "__init__", g |-> 1, result |-> "ok", was_closed |-> FALSE,
               fail |-> FALSE, changed |-> FALSE, badargs |-> FALSE]

Init ==
    /\ InitGraphs
    /\ lib_instance = 1
    /\ binds = 1
    /\ thr = [t \in Threads |-> Idle]
    /\ nat = NoQuery
    /\ host = NoHost

\* F: faults are drawn, that is native calls may fail and arguments may be of
\* the wrong type. A native call that is passed a pointer without a live
\* allocation, or an empty edge label, has no defined outcome and may fail
\* under either setting.
Null(F) == IF F THEN {0} ELSE {}

MayFail(F, S) == IF F THEN SUBSET S ELSE {{}}

Dangles(out, in) ==
    out # 0 /\ in # 0 /\ (nv[vw[out].ptr].alloc = 0 \/ nv[vw[in].ptr].alloc = 0)

\* the call was made with an argument of a type the signature does not allow
BadArgs(s, bad) == [s EXCEPT !.badargs = bad]

\* g.add_vertex(label, vertex_id, **properties)
AddVertexOf(g, label, vertex_id, properties, F) ==
    \E idok \in IF vertex_id = None /\ ~CheckNotClosed(Pack, g) /\ F THEN BOOLEAN ELSE {TRUE} :
      \E ptr \in IF CheckNotClosed(Pack, g) THEN {0}
                 ELSE IF Len(vw) < MaxVW
                      THEN (AddVertexOutcomes(Pack, g, vertex_id) \ {0}) \cup Null(F)
                      ELSE Null(F) :
        Commit(BadArgs(HostAddVertex(Pack, g, label, vertex_id, properties, ptr, idok),
                       label = NonStr \/ vertex_id = NonStr),
               "add_vertex", g)

\* the arguments of the wrong type are drawn only when F holds
AddVertex(g, F) ==
    \E label \in {None} \cup (IF F THEN {NonStr} ELSE {}),
       vertex_id \in {None, ""} \cup (IF F THEN {NonStr} ELSE {}) :
        AddVertexOf(g, label, vertex_id, NoProps, F)

\* g.add_edge(label, out, in, **properties)
AddEdgeLabelled(g, label, out, in, properties, F) ==
    \E edge_id \in {None} :
      \E ptr \in IF CheckNotClosed(Pack, g) \/ out = 0 \/ in = 0 \/ ~IsInstanceStr(label)
                 THEN {0}
                 ELSE IF NotSameGraph(Pack, g, out, in) THEN {0}
                 ELSE IF Len(ew) < MaxEW
                      THEN (AddEdgeOutcomes(Pack) \ {0})
                               \cup Null(F \/ Dangles(out, in) \/ label = "")
                      ELSE Null(F \/ Dangles(out, in) \/ label = "") :
        Commit(BadArgs(HostAddEdge(Pack, g, label, out, in, edge_id, properties, ptr),
                       label = NonStr \/ out = 0 \/ in = 0),
               "add_edge", g)

AddEdgeOf(g, out, in, F) ==
    \E label \in {"knows"} \cup (IF F THEN {NonStr} ELSE {}) :
        AddEdgeLabelled(g, label, out, in, NoProps, F)

AddEdge(g, F) ==
    \E out \in (1..Len(vw)) \cup Null(F), in \in (1..Len(vw)) \cup Null(F) :
        AddEdgeOf(g, out, in, F)

VertexCount(g) == Commit(HostVertexCount(Pack, g), "vertex_count", g)

EdgeCount(g) == Commit(HostEdgeCount(Pack, g), "edge_count", g)

Vertices(g) == Commit(HostVertices(Pack, g), "vertices", g)

Edges(g) == Commit(HostEdges(Pack, g), "edges", g)

RemoveVertexOf(g, v, F) ==
    \E failV \in MayFail(F, {v}), failE \in MayFail(F, Range(edges[g])) :
        Commit(HostRemoveVertex(Pack, g, v, failV, failE), "remove_vertex", g)

RemoveVertex(g, F) == \E v \in 1..Len(vw) : RemoveVertexOf(g, v, F)

RemoveEdgeOf(g, e, F) ==
    \E failE \in MayFail(F, {e}) :
        Commit(HostRemoveEdge(Pack, g, e, failE), "remove_edge", g)

RemoveEdge(g, F) == \E e \in 1..Len(ew) : RemoveEdgeOf(g, e, F)

Clear(g, F) ==
    \E failV \in MayFail(F, Range(vertices[g])), failE \in MayFail(F, Range(edges[g])) :
        Commit(HostClear(Pack, g, failV, failE), "clear", g)

Close(g, F) ==
    \E failV \in MayFail(F, Range(vertices[g])), failE \in MayFail(F, Range(edges[g])) :
        Commit(HostClose(Pack, g, failV, failE), "close", g)

\* TinkerGraph.__exit__
Exit(g, F) ==
    \E failV \in MayFail(F, Range(vertices[g])), failE \in MayFail(F, Range(edges[g])) :
        Commit(HostClose(Pack, g, failV, failE), "__exit__", g)

\* the program drops its last reference to graph g: TinkerGraph.__del__ runs
\* (close() unless closed) and the weak references of g's wrappers go dead
Reclaim(g) ==
    /\ ~reclaimed[g]
    /\ Commit([(IF ~closed[g] THEN HostClose(Pack, g, {}, {}) ELSE Pack) EXCEPT
                   !.reclaimed[g] = TRUE, !.exc = ""],
              "__del__", g)

\* One graph context on its own, native calls may fail.
Next ==
    \/ AddVertex(1, TRUE)
    \/ AddEdge(1, TRUE)
    \/ VertexCount(1)
    \/ EdgeCount(1)
    \/ Vertices(1)
    \/ Edges(1)
    \/ RemoveVertex(1, TRUE)
    \/ RemoveEdge(1, TRUE)
    \/ Clear(1, TRUE)
    \/ Close(1, TRUE)
    \/ Exit(1, TRUE)

Spec == Init /\ [][Next]_vars

\* Several graph contexts side by side, every native call on a live pointer succeeds.
NextCross ==
    \E g \in Graphs :
        \/ AddVertex(g, FALSE)
        \/ AddEdge(g, FALSE)
        \/ VertexCount(g)
        \/ EdgeCount(g)
        \/ Vertices(g)
        \/ Edges(g)
        \/ RemoveVertex(g, FALSE)
        \/ RemoveEdge(g, FALSE)
        \/ Clear(g, FALSE)
        \/ Close(g, FALSE)
        \/ Exit(g, FALSE)

SpecCross == Init /\ [][NextCross]_vars

\* ----- calls on the wrappers ----------------------------------------------------
\* kind "V": Vertex wrappers, kind "E": Edge wrappers
Wrappers(kind) == IF kind = "V" THEN DOMAIN vw ELSE DOMAIN ew

Properties(kind, w) == IF kind = "V" THEN vprops[w] ELSE eprops[w]

GraphOf(kind, w) == IF kind = "V" THEN vw[w].graph ELSE ew[w].graph

\* what a call on a wrapper or a query was given and what it gave back
Returned(fn, kind, w, key, arg, value) ==
    [fn |-> fn, kind |-> kind, w |-> w, key |-> key, arg |-> arg, value |-> value]

\* a call on wrapper w ends: exc raised or r returned, properties its dict then
CommitWrapper(kind, w, exc, r, properties, cs) ==
    /\ vprops' = IF kind = "V" THEN [vprops EXCEPT ![w] = properties] ELSE vprops
    /\ eprops' = IF kind = "E" THEN [eprops EXCEPT ![w] = properties] ELSE eprops
    /\ ret' = r
    /\ calls' = cs
    /\ last' = [op |-> r.fn, g |-> GraphOf(kind, w), result |-> IF exc = "" THEN "ok" ELSE exc,
                was_closed |-> closed[GraphOf(kind, w)], fail |-> FALSE,
                changed |-> properties # Properties(kind, w), badargs |-> FALSE]
    /\ UNCHANGED <<closed, vertices, edges, vertex_id_counter, vw, ew, nv, ne, vdc, edc,
                   dangling, reclaimed, brokerVars>>

\* w.get_property(key, default)
GetProperty(kind, w, key, default) ==
    CommitWrapper(kind, w, "",
                  Returned("get_property", kind, w, key, default,
                           HostGetProperty(Properties(kind, w), key, default)),
                  Properties(kind, w), <<>>)

\* the value is also written to the native element
SetProperty_Synchronized(kind, w, key, value) ==
    LET r == HostSetProperty(Properties(kind, w), key, value)
    IN  CommitWrapper(kind, w, r.exc, Returned("set_property", kind, w, key, value, None),
                      r.properties,
                      IF r.exc = "" THEN <<<<"set_property", GraphOf(kind, w)>>>> ELSE <<>>)

\* w.set_property(key, value)
SetProperty(kind, w, key, value) ==
    LET r == HostSetProperty(Properties(kind, w), key, value)
    IN  CommitWrapper(kind, w, r.exc, Returned("set_property", kind, w, key, value, None),
                      r.properties, <<>>)

\* w.remove_property(key)
RemoveProperty(kind, w, key) ==
    LET r == HostRemoveProperty(Properties(kind, w), key)
    IN  CommitWrapper(kind, w, "", Returned("remove_property", kind, w, key, None, r.value),
                      r.properties, <<>>)

\* g.vertices(**filters) / g.edges(**filters)
CommitQuery(g, s, fn, kind, filters, list) ==
    /\ ret' = Returned(fn, kind, g, filters, None, IF s.exc = "" THEN list ELSE <<>>)
    /\ calls' = s.calls
    /\ last' = [op |-> fn, g |-> g, result |-> IF s.exc = "" THEN "ok" ELSE s.exc,
                was_closed |-> closed[g], fail |-> FALSE, changed |-> FALSE,
                badargs |-> FALSE]
    /\ UNCHANGED <<closed, vertices, edges, vertex_id_counter, vw, ew, nv, ne, vdc, edc,
                   dangling, reclaimed, vprops, eprops, brokerVars>>

\* the keyword arguments the wrapper calls are made with
SetValues    == {"Bob", None}
Defaults     == {None, "Al"}
FilterInputs ==
    {f \in Overlays : /\ f["name"] \in {Absent, "Bob", "Al"}
                      /\ f["age"] \in {Absent, "Bob"}
                      /\ f["age"] = "Bob" => f["name"] = "Bob"}
InitialProps ==
    {f \in Overlays : f["age"] = Absent /\ f["name"] \in {Absent, "Bob"}}

\* One graph context and the overlays of its wrappers; every native call succeeds.
NextOverlay ==
    \/ Len(vw) < MaxOverlayV /\ AddVertexOf(1, None, None, NoProps, FALSE)
    \/ \E out \in 1..Len(vw), in \in 1..Len(vw) :
          AddEdgeLabelled(1, "knows", out, in, NoProps, FALSE)
    \/ \E kind \in {"V", "E"} : \E w \in Wrappers(kind) : \E key \in Keys :
          \/ \E default \in Defaults : GetProperty(kind, w, key, default)
          \/ \E value \in SetValues : SetProperty(kind, w, key, value)
          \/ RemoveProperty(kind, w, key)
    \/ \E kind \in {"V", "E"} : \E w \in Wrappers(kind) : \E key \in {NonStr, None} :
          SetProperty(kind, w, key, "Bob")

SpecOverlay == Init /\ [][NextOverlay]_vars

\* One graph context and its filtered queries; every native call succeeds.
NextFilter ==
    \/ \E properties \in InitialProps : AddVertexOf(1, None, None, properties, FALSE)
    \/ \E properties \in InitialProps : \E out \in 1..Len(vw), in \in 1..Len(vw) :
          AddEdgeLabelled(1, "knows", out, in, properties, FALSE)
    \/ RemoveVertex(1, FALSE)
    \/ RemoveEdge(1, FALSE)
    \/ \E w \in Wrappers("V") : SetProperty("V", w, "age", "Bob")
    \/ \E w \in Wrappers("V") : RemoveProperty("V", w, "name")
    \/ \E filters \in FilterInputs :
          CommitQuery(1, HostVertices(Pack, 1), "vertices", "V", filters,
                      HostVerticesList(Pack, 1, filters))
    \/ \E filters \in FilterInputs :
          CommitQuery(1, HostEdges(Pack, 1), "edges", "E", filters,
                      HostEdgesList(Pack, 1, filters))

SpecFilter == Init /\ [][NextFilter]_vars

\* ----- the handle broker, first use by several threads ------------------------
\* process start: no library instance yet, no graph in use yet
InitBroker ==
    /\ InitGraphs
    /\ lib_instance = 0
    /\ binds = 0
    /\ thr = [t \in Threads |-> Idle]
    /\ nat = NoQuery
    /\ host = NoHost

\* a thread starts TinkerGraph() -> NativeGraphHandle() -> _get_library()
Call(t) ==
    /\ thr[t].pc \in {"idle", "done", "failed"}
    /\ thr[t].calls < MaxCalls
    /\ thr' = [thr EXCEPT ![t] = [pc |-> "check", new |-> 0, lib |-> 0, calls |-> @.calls + 1]]
    /\ UNCHANGED <<lib_instance, binds, nat, host, graphVars>>

\* `if cls._lib_instance is None:`
GetLibraryCheck(t) ==
    /\ thr[t].pc = "check"
    /\ thr' = [thr EXCEPT ![t].pc = IF lib_instance = 0 THEN "construct" ELSE "return"]
    /\ UNCHANGED <<lib_instance, binds, nat, host, graphVars>>

\* `TinkerGraphNativeLibrary()`: locate, load and bind; found = the library is there
Construct(t, found) ==
    /\ thr[t].pc = "construct"
    /\ IF found
       THEN /\ binds' = binds + 1
            /\ thr' = [thr EXCEPT ![t].pc = "assign", ![t].new = binds + 1]
       ELSE /\ binds' = binds
            /\ thr' = [thr EXCEPT ![t].pc = "failed"]
    /\ UNCHANGED <<lib_instance, nat, host, graphVars>>

\* `cls._lib_instance = ...`
Assign(t) ==
    /\ thr[t].pc = "assign"
    /\ lib_instance' = thr[t].new
    /\ thr' = [thr EXCEPT ![t].pc = "return"]
    /\ UNCHANGED <<binds, nat, host, graphVars>>

\* `return cls._lib_instance`, kept as self._lib of the new handle
Return(t) ==
    /\ thr[t].pc = "return"
    /\ thr' = [thr EXCEPT ![t].pc = "done", ![t].lib = lib_instance]
    /\ UNCHANGED <<lib_instance, binds, nat, host, graphVars>>

NextBroker ==
    \E t \in Threads :
        \/ Call(t)
        \/ GetLibraryCheck(t)
        \/ \E found \in BOOLEAN : Construct(t, found)
        \/ Assign(t)
        \/ Return(t)

SpecBroker == InitBroker /\ [][NextBroker]_vars

\* ----- the string getters of the handle broker ---------------------------------
RECURSIVE StringsUpTo(_)
StringsUpTo(n) ==
    IF n = 0 THEN {""}
    ELSE LET S == StringsUpTo(n - 1) IN S \cup {s \o c : s \in S, c \in {"a", "b"}}

\* tinkergraph_vertex_id / _edge_label / _get_error_message: the native side
\* writes at most size bytes of str into the buffer (size - 1 and a terminator
\* when q.nul) and returns the actual length, or a negative value on failure
NativeGetString(q) ==
    IF q.fails THEN [result_size |-> -1, value |-> ""]
    ELSE LET room == IF q.nul THEN q.size - 1 ELSE q.size
         IN  [result_size |-> Len(q.str),
              value |-> SubSeq(q.str, 1, IF Len(q.str) < room THEN Len(q.str) ELSE room)]

\* NativeGraphHandle.get_vertex_id / get_edge_label
GetString(q) ==
    LET r == NativeGetString(q)
    IN  IF r.result_size < 0 THEN [exc |-> "NativeError", value |-> NoRet]
        ELSE [exc |-> "", value |-> r.value]

\* NativeGraphHandle.get_last_error
GetLastErrorString(q) ==
    LET r == NativeGetString(q)
    IN  IF r.result_size < 0 THEN [exc |-> "", value |-> "Failed to retrieve error message"]
        ELSE [exc |-> "", value |-> IF r.value # "" THEN r.value
                                   ELSE "No error message available"]

\* a getter returns (or raises) r
CommitGetter(r, op) ==
    /\ ret' = r.value
    /\ last' = [op |-> op, g |-> 1, result |-> IF r.exc = "" THEN "ok" ELSE r.exc,
                was_closed |-> FALSE, fail |-> nat.fails, changed |-> FALSE,
                badargs |-> FALSE]
    /\ calls' = <<<<op, nat.size>>>>
    /\ UNCHANGED <<closed, vertices, edges, vertex_id_counter, vw, ew, nv, ne, vdc, edc,
                   dangling, reclaimed, vprops, eprops, brokerVars>>

\* any stored string, any buffer size
InitBuffer ==
    /\ InitGraphs
    /\ lib_instance = 1
    /\ binds = 1
    /\ thr = [t \in Threads |-> Idle]
    /\ nat \in [str : StringsUpTo(MaxStrLen), size : 1..MaxBuf, fails : BOOLEAN,
                 nul : BOOLEAN]
    /\ host = NoHost

\* the three string getters, called with the buffer of nat
NextBuffer ==
    \/ CommitGetter(GetString(nat), "get_vertex_id")
    \/ CommitGetter(GetString(nat), "get_edge_label")
    \/ CommitGetter(GetLastErrorString(nat), "get_last_error")

SpecBuffer == InitBuffer /\ [][NextBuffer]_vars

\* Graph contexts and the wrappers the program keeps after a graph is closed or
\* reclaimed; every native call on a live pointer succeeds.
NextWrap ==
    \/ \E g \in Graphs :
          /\ ~reclaimed[g]
          /\ \/ AddVertex(g, FALSE)
             \/ \E label \in {"knows", ""} : \E out \in 1..Len(vw), in \in 1..Len(vw) :
                   AddEdgeLabelled(g, label, out, in, NoProps, FALSE)
             \/ Close(g, FALSE)
    \/ \E g \in Graphs : Reclaim(g)

SpecWrap == Init /\ [][NextWrap]_vars

\* ----- adjacency queries as steps ---------------------------------------------------
AdjacencyQueries ==
    {"out_edges", "in_edges", "both_edges", "out_vertices", "in_vertices", "both_vertices"}

\* v.fn(*labels) on Vertex wrapper v
Adjacent(fn, v, labels) ==
    LET r == CASE fn = "out_edges"     -> HostOutEdges(Pack, v, labels)
               [] fn = "in_edges"      -> HostInEdges(Pack, v, labels)
               [] fn = "both_edges"    -> HostBothEdges(Pack, v, labels)
               [] fn = "out_vertices"  -> HostOutVertices(Pack, v, labels)
               [] fn = "in_vertices"   -> HostInVertices(Pack, v, labels)
               [] fn = "both_vertices" -> HostBothVertices(Pack, v, labels)
        g == vw[v].graph
    IN  /\ ret' = Returned(fn, "V", v, labels, None, r.value)
        /\ calls' = r.s.calls
        /\ last' = [op |-> fn, g |-> g, result |-> IF r.s.exc = "" THEN "ok" ELSE r.s.exc,
                    was_closed |-> closed[g], fail |-> FALSE, changed |-> FALSE,
                    badargs |-> FALSE]
        /\ UNCHANGED <<closed, vertices, edges, vertex_id_counter, vw, ew, nv, ne, vdc, edc,
                       dangling, reclaimed, vprops, eprops, brokerVars>>

\* the label arguments of the adjacency queries
LabelArgs == {{}, {"knows"}, {"likes"}}

\* One graph context, its wrappers kept by the program while the graph is closed
\* and then reclaimed; every native call on a live pointer succeeds.
NextRetained ==
    \/ ~reclaimed[1] /\ AddVertexOf(1, None, None, NoProps, FALSE)
    \/ ~reclaimed[1] /\ \E out \in 1..Len(vw), in \in 1..Len(vw) :
                           AddEdgeLabelled(1, "knows", out, in, NoProps, FALSE)
    \/ ~reclaimed[1] /\ Close(1, FALSE)
    \/ Reclaim(1)
    \/ \E fn \in AdjacencyQueries : \E v \in Wrappers("V") : \E labels \in LabelArgs :
          Adjacent(fn, v, labels)
    \/ \E kind \in {"V", "E"} : \E w \in Wrappers(kind) :
          \/ GetProperty(kind, w, "name", "Al")
          \/ SetProperty(kind, w, "name", "Bob")
          \/ RemoveProperty(kind, w, "name")

SpecRetained == Init /\ [][NextRetained]_vars

\* One open graph context and the queries on its wrappers: adjacency from the
\* vertices; every native call on a live pointer succeeds.
NextAdjacency ==
    \/ AddVertex(1, FALSE)
    \/ AddEdge(1, FALSE)
    \/ RemoveVertex(1, FALSE)
    \/ RemoveEdge(1, FALSE)
    \/ \E fn \in AdjacencyQueries : \E v \in Wrappers("V") : \E labels \in LabelArgs :
          Adjacent(fn, v, labels)

SpecAdjacency == Init /\ [][NextAdjacency]_vars

\* e.other_vertex(v) on Edge wrapper e
OtherVertex(e, v) ==
    LET r == HostOtherVertex(Pack, e, v)
        g == ew[e].graph
    IN  /\ ret' = Returned("other_vertex", "E", e, v, None, r.value)
        /\ calls' = <<>>
        /\ last' = [op |-> "other_vertex", g |-> g,
                    result |-> IF r.exc = "" THEN "ok" ELSE r.exc,
                    was_closed |-> closed[g], fail |-> FALSE, changed |-> FALSE,
                    badargs |-> FALSE]
        /\ UNCHANGED <<closed, vertices, edges, vertex_id_counter, vw, ew, nv, ne, vdc, edc,
                       dangling, reclaimed, vprops, eprops, brokerVars>>

\* Graph contexts whose wrappers the program keeps, and other_vertex on the
\* edges; every native call on a live pointer succeeds.
NextEndpoint ==
    \/ NextWrap
    \/ \E e \in Wrappers("E") : \E v \in Wrappers("V") : OtherVertex(e, v)

SpecEndpoint == Init /\ [][NextEndpoint]_vars

\* g.get_vertex(vertex_id)
GetVertex(g, vertex_id) ==
    LET r == HostGetVertex(Pack, g, vertex_id)
    IN  CommitRet(r.s, "get_vertex", g,
                  Returned("get_vertex", "V", g, vertex_id, None, r.value))

\* One open graph context and lookups by id; every native call on a live
\* pointer succeeds. remove_vertex and remove_edge keep their argument in ret
\* for what is asked next.
NextLookup ==
    \/ AddVertex(1, FALSE)
    \/ AddEdge(1, FALSE)
    \/ \E v \in Wrappers("V") :
          CommitRet(HostRemoveVertex(Pack, 1, v, {}, {}), "remove_vertex", 1,
                    Returned("remove_vertex", "V", v, vw[v].id, None, None))
    \/ \E e \in Wrappers("E") :
          CommitRet(HostRemoveEdge(Pack, 1, e, {}), "remove_edge", 1,
                    Returned("remove_edge", "E", e, ew[e].id, None, None))
    \/ Clear(1, FALSE)
    \/ \E vertex_id \in {"", "n1", "n2", "none"} : GetVertex(1, vertex_id)

SpecLookup == Init /\ [][NextLookup]_vars

\* what leaves a with-block: an error raised by __exit__ replaces the body's,
\* a true return value of __exit__ suppresses it
Propagated(body, exit_exc, exit_value) ==
    IF exit_exc # "" THEN exit_exc
    ELSE IF body # None /\ exit_value # None THEN None
    ELSE body

\* g.__exit__(exc_type, ...) at the end of a with-block whose body raised body
\* (None: the body completed); __exit__ returns None
ExitWith(g, body, F) ==
    \E failV \in MayFail(F, Range(vertices[g])), failE \in MayFail(F, Range(edges[g])) :
        LET s == HostClose(Pack, g, failV, failE)
        IN  CommitRet(s, "__exit__", g,
                      Returned("__exit__", "G", g, body, None, Propagated(body, s.exc, None)))

\* One graph context used in a with-block; every native call on a live pointer
\* succeeds.
\* __enter__ gives the graph itself; the body ends normally or with an error.
NextScope ==
    \/ CommitRet(Pack, "__enter__", 1, Returned("__enter__", "G", 1, None, None, 1))
    \/ AddVertex(1, FALSE)
    \/ AddEdge(1, FALSE)
    \/ RemoveVertex(1, FALSE)
    \/ \E body \in {None, "ValueError"} : ExitWith(1, body, FALSE)

SpecScope == Init /\ [][NextScope]_vars

\* ----- what the claims speak about ---------------------------------------------
\* vertex_count() and edge_count() of graph g in the current state
vertex_count(g) == NativeVertexCount(Pack, g)

edge_count(g) == NativeEdgeCount(Pack, g)

\* the registered edges that have the wrapper v itself as an endpoint
IncidentEdges(g, v) ==
    {e \in Range(edges[g]) : ew[e].out_vertex = v \/ ew[e].in_vertex = v}

DestroyCalls == {i \in DOMAIN calls : calls[i][1] \in {"destroy_vertex", "destroy_edge"}}

GuardedOps ==
    {"add_vertex", "add_edge", "vertices", "edges", "vertex_count", "edge_count",
     "remove_vertex", "remove_edge", "clear"}

\* C1: removing a registered vertex v of an open graph, with no native call
\* failing, lowers edge_count() by exactly the number of registered edges that
\* have v as an endpoint and vertex_count() by exactly 1, and leaves no
\* registered edge with v as an endpoint.
C1_CascadeInvariant ==
    [][\A g \in Graphs : \A v \in 1..Len(vw) :
         ( /\ last'.op = "remove_vertex"
           /\ last'.g = g
           /\ ~closed[g]
           /\ ~dangling
           /\ v \in Range(vertices[g])
           /\ RemoveVertexOf(g, v, FALSE) )
         => /\ edge_count(g)' = edge_count(g) - Cardinality(IncidentEdges(g, v))
            /\ vertex_count(g)' = vertex_count(g) - 1
            /\ IncidentEdges(g, v)' = {}]_vars

\* C4: no wrapper's pointer is passed to its native destroy more than once,
\* and once close() has returned every pointer the graph obtained from a
\* native add has been passed to it exactly once.
C4_DestroyExactlyOnce ==
    /\ \A w \in DOMAIN vw : vdc[w] <= 1
    /\ \A e \in DOMAIN ew : edc[e] <= 1
    /\ \A g \in Graphs : closed[g] =>
          /\ \A w \in DOMAIN vw : vw[w].graph = g => vdc[w] = 1
          /\ \A e \in DOMAIN ew : ew[e].graph = g => edc[e] = 1

\* C8: on an open graph, as long as no native call has failed (or was passed a
\* dead pointer), vertex_count() is the number of registered vertex wrappers
\* and edge_count() the number of registered edge wrappers.
C8_MirrorEqualsNative ==
    \A g \in Graphs :
        (~closed[g] /\ ~dangling) =>
            /\ vertex_count(g) = Len(vertices[g])
            /\ edge_count(g) = Len(edges[g])

\* C9: on an open graph, remove_vertex of a wrapper that is not registered and
\* remove_edge of a wrapper that is not registered change nothing and make no
\* native destroy call.
C9_RemoveUnregisteredIsNoOp ==
    [][\A g \in Graphs :
         /\ \A v \in 1..Len(vw) :
              ( /\ last'.op = "remove_vertex"
                /\ last'.g = g
                /\ ~closed[g]
                /\ v \notin Range(vertices[g])
                /\ RemoveVertexOf(g, v, TRUE) )
              => (~last'.changed /\ DestroyCalls' = {})
         /\ \A e \in 1..Len(ew) :
              ( /\ last'.op = "remove_edge"
                /\ last'.g = g
                /\ ~closed[g]
                /\ e \notin Range(edges[g])
                /\ RemoveEdgeOf(g, e, TRUE) )
              => (~last'.changed /\ DestroyCalls' = {})]_vars

SameGraphError == "ValidationError: Vertices must belong to the same graph"

\* C2: an operation of GuardedOps called on a closed graph ends with the
\* graph-closed error, makes no native call and changes no host or native state.
C2_ClosedStateGuard ==
    (last.op \in GuardedOps /\ last.was_closed) =>
        (last.result = "GraphClosed" /\ calls = <<>> /\ ~last.changed)

C2_Witness ==
    /\ last.op = "remove_vertex"
    /\ last.was_closed
    /\ last.result = "GraphClosed"
    /\ \E w \in DOMAIN vw : vw[w].graph = last.g

\* C3: every key of the vertex registry and of the edge registry is the pointer
\* of a wrapper whose pointer was never passed to the native destroy, and the
\* native allocation living at that pointer is that wrapper's own.
C3_RegistryInvariant ==
    \A g \in Graphs :
        /\ \A w \in Range(vertices[g]) : vdc[w] = 0 /\ nv[vw[w].ptr].alloc = w
        /\ \A e \in Range(edges[g]) : edc[e] = 0 /\ ne[ew[e].ptr].alloc = e

\* a registered vertex lives at the pointer value of an element destroyed before
C3_Witness ==
    \E g \in Graphs : \E w \in Range(vertices[g]) : \E x \in DOMAIN vw :
        x # w /\ vw[x].ptr = vw[w].ptr /\ vdc[x] = 1 /\ vw[x].disposed

\* C5: close() (or __exit__) on a graph that is already closed does not raise,
\* makes no native call and changes no host or native state.
C5_IdempotentClose ==
    (last.op \in {"close", "__exit__"} /\ last.was_closed) =>
        (last.result = "ok" /\ calls = <<>> /\ ~last.changed)

C5_Witness ==
    /\ last.op = "close"
    /\ last.was_closed
    /\ last.result = "ok"
    /\ \E w \in DOMAIN vw : vw[w].graph = last.g /\ vw[w].disposed

\* C6: close() never raises; when it returns the graph is closed, both
\* registries are empty and every wrapper that was registered is disposed,
\* also when native destroy calls fail.
C6_CloseCompletes ==
    [][\A g \in Graphs :
         (last'.op \in {"close", "__exit__"} /\ last'.g = g) =>
            /\ last'.result = "ok"
            /\ closed'[g]
            /\ vertices'[g] = <<>>
            /\ edges'[g] = <<>>
            /\ \A w \in Range(vertices[g]) : vw'[w].disposed
            /\ \A e \in Range(edges[g]) : ew'[e].disposed]_vars

\* a close() during which a native destroy call failed
C6_Witness ==
    /\ last.op = "close"
    /\ ~last.was_closed
    /\ last.fail
    /\ closed[last.g]
    /\ \E w \in DOMAIN vw : vw[w].graph = last.g /\ vw[w].disposed /\ nv[vw[w].ptr].alloc = w

\* C7: add_edge on an open graph with an endpoint created by another graph
\* ends with the same-graph validation error, makes no native call and
\* registers nothing; every registered edge has both endpoints created by the
\* graph it is registered in.
C7_CrossContextRejection ==
    [][/\ \A g \in Graphs : \A out \in 1..Len(vw) : \A in \in 1..Len(vw) :
            ( /\ last'.op = "add_edge"
              /\ last'.g = g
              /\ ~closed[g]
              /\ (vw[out].graph # g \/ vw[in].graph # g)
              /\ AddEdgeOf(g, out, in, FALSE) )
            => (last'.result = SameGraphError /\ calls' = <<>> /\ ~last'.changed)
       /\ \A g \in Graphs : \A e \in Range(edges'[g]) :
            /\ vw'[ew'[e].out_vertex].graph = g
            /\ vw'[ew'[e].in_vertex].graph = g]_vars

C7_Witness ==
    /\ last.op = "add_edge"
    /\ last.result = SameGraphError
    /\ \A g \in Graphs : ~closed[g]
    /\ \E a \in Range(vertices[last.g]) : \E h \in Graphs \ {last.g} : vertices[h] # <<>>

\* C10: every graph starts open, and a closed graph stays closed with both of
\* its registries empty whatever operation is called.
C10_ClosedIsTerminal ==
    /\ \A g \in Graphs : ~closed[g]
    /\ [][\A g \in Graphs :
            closed[g] => (closed'[g] /\ vertices'[g] = <<>> /\ edges'[g] = <<>>)]_vars

\* add_vertex was called on a closed graph that had vertices
C10_Witness ==
    /\ last.op = "add_vertex"
    /\ last.was_closed
    /\ closed[last.g]
    /\ \E w \in DOMAIN vw : vw[w].graph = last.g

\* C11: no two vertices registered in the same graph have the same id.
C11_VertexIdsUnique ==
    \A g \in Graphs : \A i \in DOMAIN vertices[g] : \A j \in DOMAIN vertices[g] :
        i # j => vw[vertices[g][i]].id # vw[vertices[g][j]].id

\* C12: two Vertex wrappers (two Edge wrappers) compare equal exactly when they
\* have the same id and were created by the same graph, whether the graphs are
\* open, closed or reclaimed; equal wrappers have equal hashes.
C12_WrapperEquality ==
    /\ \A a \in DOMAIN vw : \A b \in DOMAIN vw :
          /\ VertexEq(Pack, a, b) <=> (vw[a].id = vw[b].id /\ vw[a].graph = vw[b].graph)
          /\ VertexEq(Pack, a, b) => VertexHash(Pack, a) = VertexHash(Pack, b)
    /\ \A a \in DOMAIN ew : \A b \in DOMAIN ew :
          /\ EdgeEq(Pack, a, b) <=> (ew[a].id = ew[b].id /\ ew[a].graph = ew[b].graph)
          /\ EdgeEq(Pack, a, b) => EdgeHash(Pack, a) = EdgeHash(Pack, b)

\* C13: whatever the interleaving of the threads' first graph constructions,
\* the native library is loaded and bound at most once, every caller gets the
\* same library instance, and once _lib_instance is set it is never set again
\* to another instance.
C13_InitializeOnce ==
    /\ [](binds <= 1)
    /\ [](\A t \in Threads : \A u \in Threads :
            (thr[t].pc = "done" /\ thr[u].pc = "done") => thr[t].lib = thr[u].lib)
    /\ [][lib_instance # 0 => lib_instance' = lib_instance]_vars

ValidationErrors ==
    {"ValidationError: label", "ValidationError: vertex_id",
     "ValidationError: out_vertex", "ValidationError: in_vertex", SameGraphError}

\* C14: on an open graph, add_vertex with a label or an id that is neither
\* None nor a str, and add_edge with a label that is no str or an endpoint that
\* is no Vertex, end with a validation error, make no native call and change
\* no registry, counter or native state.
C14_ValidationBeforeNative ==
    (last.op \in {"add_vertex", "add_edge"} /\ ~last.was_closed /\ last.badargs) =>
        (last.result \in ValidationErrors /\ calls = <<>> /\ ~last.changed)

\* add_edge was refused for an endpoint that is no Vertex, on a graph with vertices
C14_Witness ==
    /\ last.op = "add_edge"
    /\ last.result = "ValidationError: in_vertex"
    /\ last.badargs
    /\ ~closed[last.g]
    /\ vertices[last.g] # <<>>

\* C15: on an open graph add_edge with the empty string as label and endpoints
\* of that graph ends with a validation error and registers no edge; every
\* registered edge has a non-empty label.
C15_EdgeLabelNonEmpty ==
    [][\A g \in Graphs :
         /\ \A out \in 1..Len(vw) : \A in \in 1..Len(vw) :
              ( /\ last'.op = "add_edge"
                /\ last'.g = g
                /\ ~closed[g]
                /\ vw[out].graph = g /\ vw[in].graph = g
                /\ AddEdgeLabelled(g, "", out, in, NoProps, FALSE) )
              => (last'.result \in ValidationErrors /\ edges'[g] = edges[g])
         /\ \A e \in Range(edges'[g]) : ew'[e].label # ""]_vars

\* C16: when the native side reports a length that meets or exceeds the buffer
\* size, get_vertex_id, get_edge_label and get_last_error either fail with a
\* buffer-too-small error or return the full string (after asking again with a
\* larger buffer); they never return a shortened string as the value.
C16_FixedBufferContract ==
    ( /\ last.op \in {"get_vertex_id", "get_edge_label", "get_last_error"}
      /\ ~nat.fails
      /\ Len(nat.str) >= nat.size )
    => (last.result = "BufferTooSmall" \/ (last.result = "ok" /\ ret = nat.str))

\* the call that ran last was fn on wrapper w of the kind, with key k
LastCall(fn, kind, w, k) ==
    last.op = fn /\ last.result = "ok" /\ ret.kind = kind /\ ret.w = w /\ ret.key = k

\* C17: on every Vertex and Edge wrapper, get(k) right after set(k, val) returns
\* val; remove(k) returns the value stored under k (val right after set(k, val),
\* None right after remove(k)); get(k, d) right after remove(k) returns d; set
\* and remove leave the other keys and the other wrappers as they are.
C17_OverlayRoundTrip ==
    [][\A kind \in {"V", "E"} : \A w \in Wrappers(kind) : \A k \in Keys :
         /\ \A d \in Defaults :
              (last'.op = "get_property" /\ GetProperty(kind, w, k, d)) =>
                 /\ LastCall("set_property", kind, w, k) => ret'.value = ret.arg
                 /\ LastCall("remove_property", kind, w, k) => ret'.value = d
         /\ (last'.op = "remove_property" /\ RemoveProperty(kind, w, k)) =>
                 /\ LastCall("set_property", kind, w, k) => ret'.value = ret.arg
                 /\ LastCall("remove_property", kind, w, k) => ret'.value = None
                 /\ \A k2 \in Keys \ {k} : Properties(kind, w)'[k2] = Properties(kind, w)[k2]
                 /\ \A x \in Wrappers(kind) \ {w} : Properties(kind, x)' = Properties(kind, x)
         /\ \A val \in SetValues :
              (last'.op = "set_property" /\ SetProperty(kind, w, k, val)) =>
                 /\ \A k2 \in Keys \ {k} : Properties(kind, w)'[k2] = Properties(kind, w)[k2]
                 /\ \A x \in Wrappers(kind) \ {w} : Properties(kind, x)' = Properties(kind, x)]_vars

\* get(k, "Al") gave the default on an Edge whose other key holds a value
C17_Witness ==
    /\ last.op = "get_property"
    /\ ret.kind = "E"
    /\ ret.arg = "Al"
    /\ ret.value = "Al"
    /\ \E k \in Keys \ {ret.key} : eprops[ret.w][k] = "Bob"

\* the overlay has every filter key, mapped to exactly the filter's value
HasAll(properties, filters) ==
    \A k \in Keys : filters[k] # Absent => properties[k] = filters[k]

\* C18: on an open graph vertices(**filters) and edges(**filters) return, each
\* once, exactly the registered wrappers whose overlay now has every filter key
\* with the filter's value; with no filter, all registered wrappers; a wrapper
\* that was removed is never in the list.
C18_FilterSemantics ==
    (last.op \in {"vertices", "edges"} /\ ~last.was_closed) =>
        /\ last.result = "ok"
        /\ \A i \in 1..Len(ret.value) : \A j \in 1..Len(ret.value) :
              ret.value[i] = ret.value[j] => i = j
        /\ last.op = "vertices" =>
              /\ Range(ret.value) = {v \in Range(vertices[last.g]) : HasAll(vprops[v], ret.key)}
              /\ \A v \in Range(ret.value) : ~vw[v].disposed
        /\ last.op = "edges" =>
              /\ Range(ret.value) = {e \in Range(edges[last.g]) : HasAll(eprops[e], ret.key)}
              /\ \A e \in Range(ret.value) : ~ew[e].disposed
        /\ ret.key = NoProps =>
              Len(ret.value) = Len(IF last.op = "vertices" THEN vertices[last.g] ELSE edges[last.g])

\* vertices(name="Bob", age="Bob") found the one registered vertex that matches,
\* and not the removed one whose overlay matches as well
C18_Witness ==
    /\ last.op = "vertices"
    /\ ret.key["name"] = "Bob" /\ ret.key["age"] = "Bob"
    /\ Len(ret.value) = 1
    /\ \E v \in 1..Len(vw) : vw[v].disposed /\ HasAll(vprops[v], ret.key)

PropertyCalls == {"get_property", "set_property", "remove_property"}

\* the wrapper of the last call outlived its graph: closed, or reclaimed
Retained == closed[last.g] \/ reclaimed[last.g]

\* C19 as claimed: on a wrapper kept after its graph was closed or reclaimed,
\* get/set/remove property succeed, every adjacency query returns the empty
\* list, and none of these calls raises or makes a native call.
C19_RetainedNeverRaises ==
    (last.op \in AdjacencyQueries \cup PropertyCalls /\ Retained) =>
        /\ last.result = "ok"
        /\ calls = <<>>
        /\ last.op \in AdjacencyQueries => ret.value = <<>>

\* C19: on a wrapper kept after its graph was closed or reclaimed, get/set/remove
\* property work on the overlay as on an open graph (get after set gives the
\* value, get after remove the default); an adjacency query returns the empty
\* list once the graph was reclaimed and fails with the closed-graph error while
\* the closed graph is still alive; none of these calls makes a native call.
C19_RetainedWrappers ==
    /\ [](  (last.op \in AdjacencyQueries \cup PropertyCalls /\ Retained) =>
               /\ calls = <<>>
               /\ last.op \in PropertyCalls => last.result = "ok"
               /\ last.op \in AdjacencyQueries =>
                     /\ ret.value = <<>>
                     /\ last.result = IF reclaimed[last.g] THEN "ok" ELSE "GraphClosed")
    /\ [][\A kind \in {"V", "E"} : \A w \in Wrappers(kind) :
             (/\ last'.op = "get_property"
              /\ closed[GraphOf(kind, w)]
              /\ GetProperty(kind, w, "name", "Al")) =>
                 /\ LastCall("set_property", kind, w, "name") => ret'.value = ret.arg
                 /\ LastCall("remove_property", kind, w, "name") => ret'.value = "Al"]_vars

\* both_vertices() on a vertex that had an edge failed with the closed-graph
\* error, and the vertex's overlay still holds what was set after close
C19_Witness ==
    /\ last.op = "both_vertices"
    /\ last.result = "GraphClosed"
    /\ closed[1] /\ ~reclaimed[1]
    /\ Len(ew) = 1
    /\ vprops[ret.w]["name"] = "Bob"

\* C20: clear() on an open graph destroys and unregisters every registered edge
\* before it destroys any vertex, then destroys and unregisters every registered
\* vertex; afterwards both registries are empty, vertex_count() and edge_count()
\* are 0, and the graph is still open.
C20_ClearEmptiesGraph ==
    [][\A g \in Graphs :
         (last'.op = "clear" /\ last'.g = g /\ ~closed[g]) =>
            /\ last'.result = "ok"
            /\ \A e \in Range(edges[g]) :
                  \E i \in DOMAIN calls' : calls'[i] = <<"destroy_edge", ew[e].ptr>>
            /\ \A v \in Range(vertices[g]) :
                  \E i \in DOMAIN calls' : calls'[i] = <<"destroy_vertex", vw[v].ptr>>
            /\ \A i \in DOMAIN calls' : \A j \in DOMAIN calls' :
                  (calls'[i][1] = "destroy_vertex" /\ calls'[j][1] = "destroy_edge") => j < i
            /\ vertices'[g] = <<>> /\ edges'[g] = <<>>
            /\ vertex_count(g)' = 0 /\ edge_count(g)' = 0
            /\ ~closed'[g]]_vars

\* the registered edges of graph g that have the wrapper v itself at the given
\* end and, when labels are given, one of the labels
EdgesAt(g, v, labels, end) ==
    SelectSeq(edges[g], LAMBDA e : /\ ew[e][end] = v
                                   /\ (labels = {} \/ ew[e].label \in labels))

\* the other ends of a list of edges
Opposite(list, end) == [i \in 1..Len(list) |-> ew[list[i]][end]]

\* C21: for a registered vertex v of an open graph, out_edges(*L) is the
\* registered edges with out-endpoint v (label in L when L is given), in_edges
\* likewise for the in-endpoint, both_edges the two lists one after the other,
\* and out_vertices / in_vertices / both_vertices the same lists mapped to the
\* opposite endpoint.
C21_AdjacencyResults ==
    (/\ last.op \in AdjacencyQueries
     /\ ~closed[last.g]
     /\ ret.w \in Range(vertices[last.g])) =>
        LET g   == last.g
            v   == ret.w
            out == EdgesAt(g, v, ret.key, "out_vertex")
            in  == EdgesAt(g, v, ret.key, "in_vertex")
        IN  /\ last.result = "ok"
            /\ last.op = "out_edges"     => ret.value = out
            /\ last.op = "in_edges"      => ret.value = in
            /\ last.op = "both_edges"    => ret.value = out \o in
            /\ last.op = "out_vertices"  => ret.value = Opposite(out, "in_vertex")
            /\ last.op = "in_vertices"   => ret.value = Opposite(in, "out_vertex")
            /\ last.op = "both_vertices" =>
                  ret.value = Opposite(out, "in_vertex") \o Opposite(in, "out_vertex")

\* v is the vertex a: the same id in the same owning graph
IsVertex(v, a) == vw[v].id = vw[a].id /\ vw[v].graph = vw[a].graph

\* C22: e.other_vertex(v) returns the in-endpoint when v is the out-endpoint and
\* the out-endpoint when v is the in-endpoint (v again on a self-loop); for a v
\* that is neither endpoint it fails with ValidationError; no state changes.
C22_OtherEndpoint ==
    last.op = "other_vertex" =>
        LET e == ret.w
            v == ret.key
        IN  /\ IsVertex(v, ew[e].out_vertex) =>
                  last.result = "ok" /\ IsVertex(ret.value, ew[e].in_vertex)
            /\ IsVertex(v, ew[e].in_vertex) =>
                  last.result = "ok" /\ IsVertex(ret.value, ew[e].out_vertex)
            /\ (~IsVertex(v, ew[e].out_vertex) /\ ~IsVertex(v, ew[e].in_vertex)) =>
                  last.result = "ValidationError: Vertex is not connected to this edge"
            /\ ~last.changed

\* C23: get_vertex(id) on an open graph never fails; it returns a registered
\* vertex with that id when there is one and None otherwise; right after
\* remove_vertex(v) or clear(), get_vertex(v.id) returns None.
C23_GetVertex ==
    /\ [](  (last.op = "get_vertex" /\ ~last.was_closed) =>
               /\ last.result = "ok"
               /\ IF \E v \in Range(vertices[last.g]) : vw[v].id = ret.key
                  THEN ret.value \in Range(vertices[last.g]) /\ vw[ret.value].id = ret.key
                  ELSE ret.value = 0)
    /\ [][(/\ last'.op = "get_vertex"
           /\ ~closed[last'.g]
           /\ last.g = last'.g
           /\ last.result = "ok"
           /\ \/ last.op = "clear"
              \/ last.op = "remove_vertex" /\ ret.key = ret'.key) =>
              ret'.value = 0]_vars

\* C24: when a with-block on a graph is left, after a body that completed or
\* that raised, the graph is closed, both registries are empty and no vertex or
\* edge of the graph is left allocated on the native side; __exit__ does not
\* raise, and the error of the body is what leaves the block.
C24_ScopedRelease ==
    last.op = "__exit__" =>
        /\ closed[last.g]
        /\ vertices[last.g] = <<>> /\ edges[last.g] = <<>>
        /\ vertex_count(last.g) = 0 /\ edge_count(last.g) = 0
        /\ last.result = "ok"
        /\ ret.value = ret.key

\* C25: set_property on a Vertex or Edge wrapper with a key that is not a str
\* fails with ValidationError and leaves the overlay as it was.
C25_SetRejectsNonStringKey ==
    (last.op = "set_property" /\ ~IsStr(ret.key)) =>
        /\ last.result = "ValidationError: key"
        /\ ~last.changed

\* set_property with an int for the key was rejected on an Edge whose overlay
\* holds a value
C25_Witness ==
    /\ last.op = "set_property"
    /\ ret.kind = "E"
    /\ ret.key = NonStr
    /\ last.result = "ValidationError: key"
    /\ eprops[ret.w]["name"] = "Bob"

\* C26: on an open graph both endpoints of every registered edge are registered,
\* not disposed vertex wrappers of the same graph, whatever add_vertex,
\* add_edge, remove_vertex, remove_edge and clear were called with.
C26_NoDanglingEdges ==
    \A g \in Graphs : ~closed[g] =>
        \A e \in Range(edges[g]) : \A v \in {ew[e].out_vertex, ew[e].in_vertex} :
            /\ v \in Range(vertices[g])
            /\ ~vw[v].disposed
            /\ vw[v].graph = g

\* C27: remove_vertex(v) for a registered vertex v natively destroys and
\* unregisters every registered edge incident to v before it destroys v, and
\* unregisters v with its native destroy done; no other edge and no other
\* vertex is destroyed or unregistered.
C27_CascadeOrdering ==
    [][(/\ last'.op = "remove_vertex"
        /\ ~closed[last'.g]
        /\ ret'.w \in Range(vertices[last'.g])) =>
           LET g        == last'.g
               v        == ret'.w
               incident == IncidentEdges(g, v)
           IN  /\ last'.result = "ok"
               /\ \E j \in DOMAIN calls' :
                     /\ calls'[j] = <<"destroy_vertex", vw[v].ptr>>
                     /\ \A e \in incident : \E i \in 1..(j - 1) :
                           calls'[i] = <<"destroy_edge", ew[e].ptr>>
               /\ \A i \in DOMAIN calls' :
                     /\ calls'[i][1] = "destroy_vertex" => calls'[i][2] = vw[v].ptr
                     /\ calls'[i][1] = "destroy_edge" =>
                           \E e \in incident : calls'[i][2] = ew[e].ptr
               /\ Range(edges'[g]) = Range(edges[g]) \ incident
               /\ Range(vertices'[g]) = Range(vertices[g]) \ {v}]_vars

\* C28: in no operation is a live vertex handle passed to the native destroy
\* while an edge with that vertex as an endpoint is registered and not yet
\* natively destroyed: the destroy of each such edge comes earlier in the
\* operation's native calls.
C28_TeardownOrder ==
    [][\A j \in DOMAIN calls' :
         (calls'[j][1] = "destroy_vertex" /\ nv[calls'[j][2]].alloc # 0) =>
            LET v == nv[calls'[j][2]].alloc
            IN  \A e \in Range(edges[vw[v].graph]) :
                   (/\ v \in {ew[e].out_vertex, ew[e].in_vertex}
                    /\ ne[ew[e].ptr].alloc = e) =>
                       \E i \in 1..(j - 1) : calls'[i] = <<"destroy_edge", ew[e].ptr>>]_vars

\* C29: when the native add call of add_vertex / add_edge allocates nothing (a
\* null handle), the call fails with the vertex / edge creation error, no
\* wrapper is constructed or registered, the registries and the fallback id
\* counter are as before, and the graph is still open.
C29_FailedCreation ==
    [][/\ ( /\ last'.op = "add_vertex"
            /\ \E i \in DOMAIN calls' :
                  calls'[i][1] \in {"add_vertex", "add_vertex_with_properties"}
            /\ nv' = nv ) =>
               /\ last'.result = "VertexError"
               /\ vw' = vw /\ ew' = ew
               /\ vertices' = vertices /\ edges' = edges
               /\ vertex_id_counter' = vertex_id_counter
               /\ ~closed'[last'.g]
       /\ ( /\ last'.op = "add_edge"
            /\ \E i \in DOMAIN calls' :
                  calls'[i][1] \in {"add_edge", "add_edge_with_properties"}
            /\ ne' = ne ) =>
               /\ last'.result = "EdgeError"
               /\ vw' = vw /\ ew' = ew
               /\ vertices' = vertices /\ edges' = edges
               /\ vertex_id_counter' = vertex_id_counter
               /\ ~closed'[last'.g]]_vars

\* add_edge between registered vertices failed on the native side
C29_Witness ==
    /\ last.op = "add_edge"
    /\ last.result = "EdgeError"
    /\ ~dangling
    /\ ~closed[last.g]
    /\ Len(vertices[last.g]) = 2
    /\ edges[last.g] = <<>>

\* C30: on an open graph remove_edge(e) for a registered edge e passes e to the
\* native destroy once, unregisters it and marks it disposed; the vertex
\* registry, vertex_count(), the other registered edges and all property
\* overlays stay as they are.
C30_RemoveEdgeFrame ==
    [][\A g \in Graphs : \A e \in Range(edges[g]) :
         (/\ last'.op = "remove_edge"
          /\ last'.g = g
          /\ ~closed[g]
          /\ ret'.w = e) =>
             /\ last'.result = "ok"
             /\ Cardinality({i \in DOMAIN calls' :
                                calls'[i] = <<"destroy_edge", ew[e].ptr>>}) = 1
             /\ Range(edges'[g]) = Range(edges[g]) \ {e}
             /\ ew'[e].disposed
             /\ \A x \in DOMAIN ew \ {e} : ew'[x] = ew[x]
             /\ vertices' = vertices
             /\ vertex_count(g)' = vertex_count(g)
             /\ vprops' = vprops /\ eprops' = eprops]_vars

\* ----- _cleanup called on a wrapper ---------------------------------------------
\* One graph context, closed and reclaimed while the program keeps its wrappers
\* and calls w._cleanup() on them itself; the native destroy calls may fail.
NextDispose ==
    \/ ~reclaimed[1] /\ AddVertexOf(1, None, None, NoProps, FALSE)
    \/ ~reclaimed[1] /\ \E out \in 1..Len(vw), in \in 1..Len(vw) :
                           AddEdgeLabelled(1, "knows", out, in, NoProps, FALSE)
    \/ ~reclaimed[1] /\ RemoveVertex(1, TRUE)
    \/ ~reclaimed[1] /\ RemoveEdge(1, TRUE)
    \/ ~reclaimed[1] /\ Close(1, TRUE)
    \/ Reclaim(1)
    \/ \E kind \in {"V", "E"} : \E w \in Wrappers(kind) : \E fail \in MayFail(TRUE, {w}) :
          CommitRet(IF kind = "V" THEN VertexCleanup(Pack, w, fail)
                    ELSE EdgeCleanup(Pack, w, fail),
                    "_cleanup", GraphOf(kind, w),
                    Returned("_cleanup", kind, w, None, None, None))

SpecDispose == Init /\ [][NextDispose]_vars

\* C31: the first _cleanup() of a wrapper makes at most one native destroy call
\* and sets the disposed flag; a later _cleanup() makes no native call and
\* changes nothing; with the owning graph gone _cleanup() makes no native call
\* and still marks the wrapper disposed; _cleanup() never raises.
C31_CleanupIdempotent ==
    [][\A kind \in {"V", "E"} : \A w \in Wrappers(kind) :
         (/\ last'.op = "_cleanup"
          /\ ret'.kind = kind
          /\ ret'.w = w) =>
             /\ last'.result = "ok"
             /\ (IF kind = "V" THEN vw'[w].disposed ELSE ew'[w].disposed)
             /\ Cardinality(DestroyCalls') <= 1
             /\ (IF kind = "V" THEN vw[w].disposed ELSE ew[w].disposed)
                   => (calls' = <<>> /\ ~last'.changed)
             /\ GraphRef(Pack, GraphOf(kind, w)) = 0 => calls' = <<>>]_vars

\* C32: between operations a Vertex or Edge wrapper is in the registry of the
\* graph that created it exactly when its disposed flag is false, and once a
\* graph is closed all its wrappers are disposed and its registries are empty.
C32_RegisteredIffLive ==
    /\ \A w \in DOMAIN vw : (w \in Range(vertices[vw[w].graph])) <=> ~vw[w].disposed
    /\ \A e \in DOMAIN ew : (e \in Range(edges[ew[e].graph])) <=> ~ew[e].disposed
    /\ \A g \in Graphs : closed[g] => (vertices[g] = <<>> /\ edges[g] = <<>>)

\* One graph context whose elements are created with properties and whose
\* wrappers are mutated, before and after the graph is closed; every native
\* call succeeds.
NextMutate ==
    \/ \E properties \in InitialProps : AddVertexOf(1, None, None, properties, FALSE)
    \/ \E properties \in InitialProps : \E out \in 1..Len(vw), in \in 1..Len(vw) :
          AddEdgeLabelled(1, "knows", out, in, properties, FALSE)
    \/ Close(1, FALSE)
    \/ \E kind \in {"V", "E"} : \E w \in Wrappers(kind) : \E key \in Keys :
          \/ \E value \in SetValues : SetProperty(kind, w, key, value)
          \/ RemoveProperty(kind, w, key)

SpecMutate == Init /\ [][NextMutate]_vars

\* C33: set_property and remove_property on a Vertex or Edge wrapper make no
\* native call and change nothing but the overlay of that wrapper: registries,
\* native elements, ids, labels, the closed flag and the overlay of every other
\* wrapper (also one created from an equal property mapping) stay as they are.
C33_MutationHostOnly ==
    [][\A kind \in {"V", "E"} : \A w \in Wrappers(kind) :
         (/\ last'.op \in {"set_property", "remove_property"}
          /\ ret'.kind = kind
          /\ ret'.w = w) =>
             /\ calls' = <<>>
             /\ UNCHANGED <<closed, vertices, edges, vertex_id_counter, vw, ew, nv, ne,
                            vdc, edc, reclaimed>>
             /\ \A x \in DOMAIN vprops : (kind = "V" /\ x = w) \/ vprops'[x] = vprops[x]
             /\ \A x \in DOMAIN eprops : (kind = "E" /\ x = w) \/ eprops'[x] = eprops[x]
             /\ DOMAIN vprops' = DOMAIN vprops /\ DOMAIN eprops' = DOMAIN eprops]_vars

\* set_property("age", ...) on one of two vertices that were created from equal
\* property mappings, after the graph was closed: the other keeps its overlay
C33_Witness ==
    /\ last.op = "set_property"
    /\ last.changed
    /\ ret.kind = "V"
    /\ ret.key = "age"
    /\ Len(vw) = 2
    /\ vprops[ret.w] = [name |-> "Bob", age |-> "Bob"]
    /\ vprops[3 - ret.w] = [name |-> "Bob", age |-> Absent]
    /\ closed[1]
    /\ calls = <<>>

\* One graph context and the vertices created in it, with and without label, id
\* and properties (args: label, vertex_id, properties); the native calls of
\* add_vertex may fail. add_vertex keeps its arguments and the wrapper it
\* returned (0: none) in ret for what is asked next.
NextCreate ==
    \/ \E args \in {<<None, None, NoProps>>,
                     <<"person", None, NoProps>>,
                     <<None, "a", [name |-> "Bob", age |-> Absent]>>,
                     <<"person", "", [name |-> "Bob", age |-> Absent]>>} :
        \E idok \in IF args[2] = None /\ ~CheckNotClosed(Pack, 1) THEN BOOLEAN ELSE {TRUE} :
          \E ptr \in IF CheckNotClosed(Pack, 1) THEN {0}
                     ELSE IF Len(vw) < MaxVW
                          THEN AddVertexOutcomes(Pack, 1, args[2])
                          ELSE {0} :
            LET s == HostAddVertex(Pack, 1, args[1], args[2], args[3], ptr, idok)
            IN  CommitRet(s, "add_vertex", 1,
                          Returned("add_vertex", "V",
                                   IF s.exc = "" THEN Len(s.vw) ELSE 0,
                                   args[2], args[1], args[3]))
    \/ \E v \in 1..Len(vw) : AddEdgeLabelled(1, "knows", v, v, NoProps, FALSE)
    \/ RemoveVertex(1, FALSE)
    \/ Close(1, FALSE)

SpecCreate == Init /\ [][NextCreate]_vars

\* C34: a successful add_vertex(label, id, properties) on an open graph returns
\* a new wrapper that is registered under its native handle, alone among the
\* new entries; its label is the label given or "vertex" when none was given,
\* its id the id given when one was given, its overlay exactly the properties
\* given, it is not disposed; vertex_count() has grown by one and the edge
\* registry is as before.
C34_AddVertexPost ==
    [][\A g \in Graphs :
         (/\ last'.op = "add_vertex"
          /\ last'.g = g
          /\ last'.result = "ok") =>
             LET w == ret'.w
             IN  /\ ~closed[g]
                 /\ w \notin DOMAIN vw
                 /\ DOMAIN vw' = DOMAIN vw \cup {w}
                 /\ \A x \in DOMAIN vw : vw'[x] = vw[x] /\ vprops'[x] = vprops[x]
                 /\ Range(vertices'[g]) = Range(vertices[g]) \cup {w}
                 /\ Len(vertices'[g]) = Len(vertices[g]) + 1
                 /\ nv'[vw'[w].ptr].alloc = w
                 /\ vw'[w].graph = g
                 /\ vw'[w].label = (IF ret'.arg = None THEN "vertex" ELSE ret'.arg)
                 /\ ret'.key # None => vw'[w].id = ret'.key
                 /\ vprops'[w] = ret'.value
                 /\ ~vw'[w].disposed
                 /\ vertex_count(g)' = vertex_count(g) + 1
                 /\ edges' = edges /\ ew' = ew /\ ~closed'[g]]_vars

\* add_vertex without a label, with an id and a property, in a graph that holds
\* a vertex already
C34_Witness ==
    /\ last.op = "add_vertex"
    /\ last.result = "ok"
    /\ ret.arg = None
    /\ ret.key = "a"
    /\ ret.value = [name |-> "Bob", age |-> Absent]
    /\ ret.w = 2
    /\ vertices[1] = <<1, 2>>
    /\ vw[2].label = "vertex"
    /\ vprops[2] = ret.value

\* C35: the fallback counter of a graph starts at 0, never decreases, and moves
\* only in an add_vertex without id whose native id lookup failed, by exactly
\* one; the vertex then gets the decimal string of the counter's old value, so
\* the fallback ids of one graph are below its counter and never repeated.
C35_FallbackCounter ==
    /\ \A g \in Graphs : vertex_id_counter[g] = 0
    /\ [](\A a \in DOMAIN vw : \A b \in DOMAIN vw :
             /\ vw[a].id \in {str(n) : n \in 0..MaxVW}
                   => \E n \in 0..(vertex_id_counter[vw[a].graph] - 1) : vw[a].id = str(n)
             /\ (a # b /\ vw[a].graph = vw[b].graph /\ vw[a].id \in {str(n) : n \in 0..MaxVW})
                   => vw[a].id # vw[b].id)
    /\ [][\A g \in Graphs :
            /\ vertex_id_counter'[g] >= vertex_id_counter[g]
            /\ vertex_id_counter'[g] # vertex_id_counter[g] =>
                  /\ last'.op = "add_vertex" /\ last'.g = g /\ last'.result = "ok"
                  /\ last'.fail
            /\ (last'.op = "add_vertex" /\ last'.g = g /\ last'.result = "ok" /\ last'.fail) =>
                  /\ vertex_id_counter'[g] = vertex_id_counter[g] + 1
                  /\ Len(vw') = Len(vw) + 1
                  /\ vw'[Len(vw')].id = str(vertex_id_counter[g])]_vars

\* the second fallback of a graph, after the vertex of the first was removed
C35_Witness ==
    /\ last.op = "add_vertex"
    /\ last.result = "ok"
    /\ last.fail
    /\ Len(vw) = 2
    /\ vw[1].id = "0" /\ vw[1].disposed
    /\ vw[2].id = "1"
    /\ vertex_id_counter[1] = 2

\* ----- parallel edges --------------------------------------------------------------
\* as Init, with MaxParallelE native edge pointer values
InitParallel ==
    /\ closed = [g \in Graphs |-> FALSE]
    /\ vertices = [g \in Graphs |-> <<>>]
    /\ edges = [g \in Graphs |-> <<>>]
    /\ vertex_id_counter = [g \in Graphs |-> 0]
    /\ vw = <<>>
    /\ ew = <<>>
    /\ nv = [h \in VHandles |-> Free]
    /\ ne = [h \in 1..MaxParallelE |-> Free]
    /\ vdc = <<>>
    /\ edc = <<>>
    /\ dangling = FALSE
    /\ calls = <<>>
    /\ reclaimed = [g \in Graphs |-> FALSE]
    /\ vprops = <<>>
    /\ eprops = <<>>
    /\ ret = NoRet
    /\ last = [op |-> "__init__", g |-> 1, result |-> "ok", was_closed |-> FALSE,
               fail |-> FALSE, changed |-> FALSE, badargs |-> FALSE]
    /\ lib_instance = 1
    /\ binds = 1
    /\ thr = [t \in Threads |-> Idle]
    /\ nat = NoQuery
    /\ host = NoHost

\* One graph context with up to MaxParallelE edges between its vertices, added
\* without id and properties; every native call succeeds.
NextParallel ==
    \/ AddVertexOf(1, None, None, NoProps, FALSE)
    \/ \E label \in {"knows", "likes"} :
          \E out \in Range(vertices[1]), in \in Range(vertices[1]) :
            \E ptr \in IF CheckNotClosed(Pack, 1) THEN {0}
                       ELSE IF Len(ew) < MaxParallelE THEN AddEdgeOutcomes(Pack) \ {0}
                       ELSE {} :
              Commit(HostAddEdge(Pack, 1, label, out, in, None, NoProps, ptr), "add_edge", 1)
    \/ \E e \in Range(edges[1]) : RemoveEdgeOf(1, e, FALSE)
    \/ Close(1, FALSE)

SpecParallel == InitParallel /\ [][NextParallel]_vars

\* C36: in an open graph two different registered Edge wrappers never compare
\* equal, parallel edges with the default id included.
C36_EdgesDistinguishable ==
    \A g \in Graphs : ~closed[g] =>
        \A a \in Range(edges[g]) : \A b \in Range(edges[g]) :
            (a # b /\ ew[a].ptr # ew[b].ptr) => ~EdgeEq(Pack, a, b)

\* ----- locating the native library ------------------------------------------------
\* str.startswith
StartsWith(s, prefix) == Len(s) >= Len(prefix) /\ SubSeq(s, 1, Len(prefix)) = prefix

\* the extension for sys.platform, None when the platform is not recognized
LibExtension(platform) ==
    IF StartsWith(platform, "linux") THEN "so"
    ELSE IF StartsWith(platform, "darwin") THEN "dylib"
    ELSE IF StartsWith(platform, "win") THEN "dll"
    ELSE None

\* Path(__file__).parent of bindings.py
CurrentDir == "/repo/src/python/tinkergraphs"

\* Path(os.environ[...]): the empty string is the path "."
EnvPath(env) == IF env = "" THEN "." ELSE env

\* the override is tried after the fixed candidates
Candidates_EnvLast(lib_filename, env) ==
    << CurrentDir \o "/../../build/bin/native/releaseShared/" \o lib_filename,
       CurrentDir \o "/../../build/bin/native/debugShared/" \o lib_filename,
       CurrentDir \o "/" \o lib_filename,
       "/usr/local/lib/" \o lib_filename,
       "/usr/lib/" \o lib_filename,
       "C:/Program Files/TinkerGraphs/" \o lib_filename,
       "/usr/local/lib/" \o lib_filename,
       "/opt/homebrew/lib/" \o lib_filename >>
    \o IF env # None THEN <<EnvPath(env)>> ELSE <<>>

\* the candidates list of _find_native_library, after candidates.insert(0, env_path)
Candidates(lib_filename, env) ==
    (IF env # None THEN <<EnvPath(env)>> ELSE <<>>) \o
    << CurrentDir \o "/../../build/bin/native/releaseShared/" \o lib_filename,
       CurrentDir \o "/../../build/bin/native/debugShared/" \o lib_filename,
       CurrentDir \o "/" \o lib_filename,
       "/usr/local/lib/" \o lib_filename,
       "/usr/lib/" \o lib_filename,
       "C:/Program Files/TinkerGraphs/" \o lib_filename,
       "/usr/local/lib/" \o lib_filename,
       "/opt/homebrew/lib/" \o lib_filename >>

\* Path.resolve() where no symbolic link is involved: ".." folded (two levels
\* above CurrentDir is /repo/src), "." made the directory the process runs in
Resolve(path) ==
    IF StartsWith(path, CurrentDir \o "/../..")
    THEN "/repo/src" \o SubSeq(path, Len(CurrentDir \o "/../..") + 1, Len(path))
    ELSE IF path = "." THEN "/home/user"
    ELSE path

\* `for candidate in candidates: if candidate.exists(): return candidate.resolve()`
\* from position i on; examined are the candidates exists() was called on
RECURSIVE SearchFrom(_, _, _)
SearchFrom(candidates, exists, i) ==
    IF i > Len(candidates)
    THEN [exc |-> "LibraryError", value |-> None, examined |-> candidates,
          message |-> [library_path |-> "native library", kind |-> "Could not find",
                       tried |-> candidates]]
    ELSE IF candidates[i] \in exists
    THEN [exc |-> "", value |-> Resolve(candidates[i]),
          examined |-> SubSeq(candidates, 1, i),
          message |-> [library_path |-> "", kind |-> "", tried |-> <<>>]]
    ELSE SearchFrom(candidates, exists, i + 1)

\* TinkerGraphNativeLibrary._find_native_library in host h
FindNativeLibrary(h) ==
    LET lib_extension == LibExtension(h.platform)
    IN  IF lib_extension = None
        THEN [exc |-> "LibraryError", value |-> None, examined |-> <<>>,
              message |-> [library_path |-> "", kind |-> "Unsupported platform",
                           tried |-> <<>>]]
        ELSE LET lib_filename == "libtinkergraphs." \o lib_extension
             IN  SearchFrom(Candidates(lib_filename, h.env), h.exists, 1)

\* TinkerGraphNativeLibrary._load_library: every error is raised again as a
\* library error that carries the text of the first
LoadLibrary(h) ==
    LET r == FindNativeLibrary(h)
    IN  IF r.exc # ""
        THEN [r EXCEPT !.message.library_path = "unknown"]
        ELSE IF ~h.loads
        THEN [r EXCEPT !.exc = "LibraryError", !.value = None,
                       !.message = [library_path |-> r.value, kind |-> "CDLL",
                                    tried |-> <<>>]]
        ELSE r

\* the call returns (or raises) r
CommitLocate(r, op) ==
    /\ ret' = r
    /\ calls' = [i \in DOMAIN r.examined |-> <<"exists", r.examined[i]>>]
    /\ last' = [op |-> op, g |-> 1, result |-> IF r.exc = "" THEN "ok" ELSE r.exc,
                was_closed |-> FALSE, fail |-> r.exc # "", changed |-> FALSE,
                badargs |-> FALSE]
    /\ UNCHANGED <<closed, vertices, edges, vertex_id_counter, vw, ew, nv, ne, vdc, edc,
                   dangling, reclaimed, vprops, eprops, brokerVars>>

\* process start on any platform (sys.platform), with any override
\* (TINKERGRAPH_NATIVE_LIB, None: not set) and any of the candidate files present
InitLocate ==
    /\ InitGraphs
    /\ lib_instance = 0
    /\ binds = 0
    /\ thr = [t \in Threads |-> Idle]
    /\ nat = NoQuery
    /\ \E platform \in {"linux", "darwin", "win32", "freebsd13"},
          env \in {None, "", "/opt/tg/libtg.so"}, loads \in BOOLEAN :
         \E exists \in SUBSET
                 ((IF env # None THEN {EnvPath(env)} ELSE {}) \cup
                  IF LibExtension(platform) = None THEN {}
                  ELSE Range(Candidates("libtinkergraphs." \o LibExtension(platform), None))) :
            host = [platform |-> platform, env |-> env, exists |-> exists, loads |-> loads]

NextLocate ==
    \/ CommitLocate(FindNativeLibrary(host), "_find_native_library")
    \/ CommitLocate(LoadLibrary(host), "_load_library")

SpecLocate == InitLocate /\ [][NextLocate]_vars

\* C37: _find_native_library examines the candidates in the order override
\* (when set), release build, debug build, package-local, system paths, and
\* returns the first that exists (resolved) without examining a later one; when
\* none exists it fails with the library error that lists every candidate; on
\* an unrecognized platform it fails before any candidate is examined.
C37_ResolutionOrder ==
    last.op = "_find_native_library" =>
        IF host.platform \notin {"linux", "darwin", "win32"}
        THEN /\ last.result = "LibraryError"
             /\ calls = <<>>
        ELSE LET lib   == "libtinkergraphs." \o
                              (CASE host.platform = "linux"  -> "so"
                                 [] host.platform = "darwin" -> "dylib"
                                 [] host.platform = "win32"  -> "dll")
                 pkg   == "/repo/src/python/tinkergraphs/"
                 order == (IF host.env # None THEN <<EnvPath(host.env)>> ELSE <<>>) \o
                          << pkg \o "../../build/bin/native/releaseShared/" \o lib,
                             pkg \o "../../build/bin/native/debugShared/" \o lib,
                             pkg \o lib,
                             "/usr/local/lib/" \o lib,
                             "/usr/lib/" \o lib,
                             "C:/Program Files/TinkerGraphs/" \o lib,
                             "/usr/local/lib/" \o lib,
                             "/opt/homebrew/lib/" \o lib >>
                 found == {i \in DOMAIN order : order[i] \in host.exists}
             IN  IF found = {}
                 THEN /\ last.result = "LibraryError"
                      /\ ret.message.tried = order
                      /\ calls = [i \in DOMAIN order |-> <<"exists", order[i]>>]
                 ELSE LET first == CHOOSE i \in found : \A j \in found : i <= j
                      IN  /\ last.result = "ok"
                          /\ ret.value = Resolve(order[first])
                          /\ calls = [i \in 1..first |-> <<"exists", order[i]>>]

\* the override is set but missing, the debug build and a system copy exist:
\* the debug build is returned after three candidates were examined
C37_Witness ==
    /\ last.op = "_find_native_library"
    /\ last.result = "ok"
    /\ host.platform = "linux"
    /\ host.env = "/opt/tg/libtg.so"
    /\ host.exists = {CurrentDir \o "/../../build/bin/native/debugShared/libtinkergraphs.so",
                      "/usr/lib/libtinkergraphs.so"}
    /\ ret.value = "/repo/src/build/bin/native/debugShared/libtinkergraphs.so"
    /\ Len(calls) = 3
====
